---- MODULE Spec2Model ----
(***************************************************************************)
(* minecraft-god: the orchestrator of server/main.py (event intake, the    *)
(* command queue, the divine request consumer loop, the spontaneous tick   *)
(* loop, the shared asyncio lock and the activity log), the divine request *)
(* queue of server/prayer_queue.py, the event buffer of server/events.py,  *)
(* the Kind God's memory of server/memory.py and KindGod.think of          *)
(* server/kind_god.py.                                                     *)
(*                                                                         *)
(* One step of the model is one run of a coroutine between two suspension  *)
(* points (asyncio is cooperative: code between two awaits is atomic).     *)
(* The suspension points are asyncio.sleep, Queue.get, Lock.acquire and    *)
(* the LLM calls of the personas and of the memory consolidation.          *)
(***************************************************************************)
EXTENDS Integers, Sequences, FiniteSets, TLC

(* ------------------------------------------------------------------ *)
(* Bounds of the model                                                 *)
(* ------------------------------------------------------------------ *)

\* number of POST /event calls in one behaviour
MaxEvents == 2
\* number of commands injected through POST /commands in one behaviour
MaxInject == 1
\* number of GET /commands calls in one behaviour
MaxPolls == 2
\* number of requests a caller of the queue creates in one behaviour
MaxRequests == 2
\* seconds the wall clock advances in one behaviour
MaxTime == 1
\* number of POST /event calls in one behaviour of the tick loop alone
TickEvents == 3
\* the wall clock at start-up; large enough that a timestamp of 0 ("never")
\* lies further back than every interval, as with a unix time
Epoch == 10
\* commands one persona call validates at most
MaxThinkCmds == 1
\* stand-ins for intervals and capacities of the program, scaled down:
\* EventBuffer._STATUS_STALE_SECONDS (120)
StatusStaleSeconds == 0
\* HERALD_COOLDOWN (60)
HeraldCooldown == 1
\* MEMORY_CONSOLIDATION_INTERVAL_SECONDS (3 hours)
ConsolidationInterval == 1
\* _CONSOLIDATION_LOG_MAX (500)
ConsolidationLogMax == 2
\* KIND_GOD_ACTION_THRESHOLD (6)
KindGodActionThreshold == 2
\* MEMORY_MAX_ENTRIES (15)
MemoryMaxEntries == 2
\* MAX_TOOL_CALLS_PER_RESPONSE (5)
ToolCallCap == 2
\* number of calls of KindGod.think in one behaviour of think alone
MaxThinks == 2
\* number of chat lines a request has captured at most
MaxChat == 3
\* number of add and of drain_and_summarize calls in one behaviour of the
\* event buffer alone
BufferEvents == 3
MaxDrains == 2

(* ------------------------------------------------------------------ *)
(* Program constants                                                   *)
(* ------------------------------------------------------------------ *)

MAX_ATTEMPTS == 5
\* KindGod.think: max_turns
KindMaxTurns == 4
\* receive_event: event_buffer.get_recent_chat(limit=10)
RecentChatLimit == 10

\* A chat message is represented by the keywords it contains, by class:
\* "remember" (REMEMBER_KEYWORDS), "dig" (DIG_KEYWORDS), "prayer"
\* (PRAYER_KEYWORDS), "herald" (herald or bard: HERALD_KEYWORDS that are also
\* HERALD_INVOKE_KEYWORDS) and "guide" (the HERALD_KEYWORDS member that is not).

\* Python's None, where the other values are dicts
None == [none |-> TRUE]

\* Python's None, where the other values are strings
NoName == "none"

(* ------------------------------------------------------------------ *)
(* Sequence helpers                                                    *)
(* ------------------------------------------------------------------ *)

Range(s) == {s[i] : i \in DOMAIN s}

Min(a, b) == IF a < b THEN a ELSE b

Max(a, b) == IF a > b THEN a ELSE b

\* s[-n:]
LastN(s, n) == SubSeq(s, Max(1, Len(s) - n + 1), Len(s))

\* s[n:] (after del s[:n])
DropFirst(s, n) == SubSeq(s, Min(n, Len(s)) + 1, Len(s))

VARIABLES
    now,                            \* time.time()
    n_events,                       \* POST /event calls so far
    n_injected,                     \* commands injected so far
    events,                         \* event_buffer._events
    latest_player_status,           \* event_buffer._latest_player_status
    player_status_time,             \* event_buffer._player_status_time
    command_queue,                  \* main.command_queue
    next_cmd,                       \* identity of the next command dict
    delivered,                      \* the batches GET /commands has returned
    budget,                         \* what the environment may still do
    prayer_queue,                   \* prayer_queue._queue
    next_req,                       \* identity of the next DivineRequest
    consolidation_log,              \* main._consolidation_log
    next_log,                       \* identity of the next activity entry
    force_consolidation,            \* main._force_consolidation
    consolidation_cooldown_until,   \* main._consolidation_cooldown_until
    last_consolidation,             \* kind_god.memory.last_consolidation
    consolidation_count,            \* kind_god.memory.consolidation_count
    memories,                       \* kind_god.memory.memories
    action_count,                   \* kind_god.action_count
    deep_god_acted,                 \* kind_god._deep_god_acted
    last_spoke,                     \* herald_god._last_spoke
    locked,                         \* _tick_lock._locked
    waiters,                        \* _tick_lock._waiters (tasks, oldest first)
    woken,                          \* waiters whose future has been set
    holder,                         \* the task between acquire and release
    tk_pc,                          \* where _god_tick_loop is suspended
    tk,                             \* locals of the tick body
    pl_pc,                          \* where _prayer_loop is suspended
    request,                        \* _prayer_loop: request
    pl,                             \* locals of _process_divine_request
    hist,                           \* per request: what happened to it
    last_tick,                      \* what the last timer expiry did
    held,                           \* requests a caller of the queue holds
    kg,                             \* the frame of KindGod.think, last_error
    dg,                             \* deep_god.conversation_history, think's frame
    dig,                            \* the frame of DigGod._handle_dig_response
    buffer_calls,                   \* what a caller of the buffer passed, got
    pure,                           \* a function's argument and what it returned
    results                         \* per request: what requeue returned

vars == << now, n_events, n_injected, events, latest_player_status,
           player_status_time, command_queue, next_cmd, delivered,
           budget, prayer_queue, next_req, consolidation_log, next_log,
           force_consolidation, consolidation_cooldown_until,
           last_consolidation, consolidation_count, memories, action_count,
           deep_god_acted, last_spoke, locked, waiters, woken, holder,
           tk_pc, tk, pl_pc, request, pl, hist, last_tick, held, kg, dg, dig,
           buffer_calls, pure, results >>


(* ------------------------------------------------------------------ *)
(* prayer_queue.py: keyword classification                             *)
(* ------------------------------------------------------------------ *)

REMEMBER_KEYWORDS == {"remember"}

DIG_KEYWORDS == {"dig"}

PRAYER_KEYWORDS == {"prayer"}

HERALD_KEYWORDS == {"herald", "guide"}

HERALD_INVOKE_KEYWORDS == {"herald"}

ALL_DIVINE_KEYWORDS ==
    PRAYER_KEYWORDS \cup HERALD_KEYWORDS \cup DIG_KEYWORDS \cup REMEMBER_KEYWORDS

\* str.lower() of one word or name: those written with capitals
lower_word(w) ==
    CASE w = "Remember" -> "remember"
      [] w = "DIG" -> "dig"
      [] w = "Prayer" -> "prayer"
      [] w = "HERALD" -> "herald"
      [] w = "Steve" -> "steve"
      [] w = "STEVE" -> "steve"
      [] w = "Bob" -> "bob"
      [] OTHER -> w

\* message.lower()
lower(message) == {lower_word(w) : w \in message}

is_divine_request(message) == lower(message) \cap ALL_DIVINE_KEYWORDS # {}

\* the precedence the older tests expect: a prayer keyword first
classify_prayer_first(message) ==
    IF lower(message) \cap PRAYER_KEYWORDS # {} THEN "prayer"
    ELSE IF lower(message) \cap REMEMBER_KEYWORDS # {} THEN "remember"
    ELSE IF lower(message) \cap DIG_KEYWORDS # {} THEN "dig"
    ELSE IF lower(message) \cap HERALD_KEYWORDS # {} THEN "herald"
    ELSE NoName

classify_divine_request(message) ==
    IF lower(message) \cap REMEMBER_KEYWORDS # {} THEN "remember"
    ELSE IF lower(message) \cap DIG_KEYWORDS # {} THEN "dig"
    ELSE IF lower(message) \cap PRAYER_KEYWORDS # {} THEN "prayer"
    ELSE IF lower(message) \cap HERALD_KEYWORDS # {} THEN "herald"
    ELSE NoName

\* a player name that contains a Herald keyword as a substring
NameInvokesHerald(name) == name = "herald_fan"

(* ------------------------------------------------------------------ *)
(* events.py: EventBuffer                                              *)
(* ------------------------------------------------------------------ *)

IsChat(e) == e.type = "chat"

\* EventBuffer.add
BufferAdd(evs, e) == IF e.type = "player_status" THEN evs ELSE Append(evs, e)

\* EventBuffer.get_recent_chat
get_recent_chat(evs, limit) == LastN(SelectSeq(evs, IsChat), limit)

\* get_player_status, were a beacon stale from the threshold on (">=")
get_player_status_strict(s) ==
    IF s.latest_player_status = None THEN None
    ELSE IF s.now - s.player_status_time >= StatusStaleSeconds THEN None
    ELSE s.latest_player_status

\* EventBuffer.get_player_status
get_player_status(s) ==
    IF s.latest_player_status = None THEN None
    ELSE IF s.now - s.player_status_time > StatusStaleSeconds THEN None
    ELSE s.latest_player_status

\* "not player_status or not player_status.get('players')"
NoPlayersOnline(status) == status = None \/ status.players = {}

NotDivineChat(e) == ~(IsChat(e) /\ is_divine_request(e.message))

\* drain_and_summarize, were filter_divine to have no effect
keep_all(evs) == evs

\* the events drain_and_summarize keeps when filter_divine is set
FilterDivine(evs) == SelectSeq(evs, NotDivineChat)

\* The digest text, as far as the orchestrator looks into it: whether it has
\* a [PLAYER CHAT] line and whether a Herald invoke keyword occurs in it.
\* The PLAYERS ONLINE section is rendered from the cached beacon without the
\* staleness check.
Summarize(evs, status) ==
    IF evs = <<>> THEN None
    ELSE [chat   |-> \E i \in DOMAIN evs : IsChat(evs[i]),
          herald |-> \/ \E i \in DOMAIN evs : NameInvokesHerald(evs[i].player)
                     \/ /\ status # None
                        /\ \E p \in status.players : NameInvokesHerald(p.name)]

\* EventBuffer.drain_and_summarize(filter_divine=True): the text returned
\* (the buffer itself is emptied by the caller's step)
drain_and_summarize(evs, status) == Summarize(FilterDivine(evs), status)

\* a line of the CHAT section
ChatLine(e) == [player |-> e.player, message |-> e.message]

\* EventBuffer.drain_and_summarize: the text returned, section by section:
\* the players of the PLAYERS ONLINE section, the lines of the CHAT section,
\* and the types of the events the other sections are made from
digest(evs, status, filter_divine) ==
    LET kept == IF filter_divine THEN FilterDivine(evs) ELSE evs
        chats == SelectSeq(kept, IsChat)
    IN  IF kept = <<>> THEN None
        ELSE [players |-> IF status = None THEN {}
                          ELSE {p.name : p \in status.players},
              chat_lines |-> [i \in DOMAIN chats |-> ChatLine(chats[i])],
              activity |-> {kept[i].type : i \in DOMAIN kept} \ {"chat"}]

\* drain_and_summarize, were it to leave the newest event in the list
drain_keeps_newest(evs) == LastN(evs, 1)

\* drain_and_summarize: "self._events.clear()"
drained_events(evs) == <<>>

(* ------------------------------------------------------------------ *)
(* prayer_queue.py: DivineRequest and DivineRequestQueue               *)
(* ------------------------------------------------------------------ *)

DivineRequest(id, player, message, request_type, timestamp, snapshot, chat) ==
    [id |-> id, player |-> player, message |-> message,
     request_type |-> request_type, timestamp |-> timestamp,
     player_snapshot |-> snapshot, recent_chat |-> chat, attempts |-> 0]

NoRequest == [id |-> 0]

\* build_context, were it to keep every line of recent_chat
ContextChatUnfiltered(r) ==
    LET lines == [i \in DOMAIN r.recent_chat |-> ChatLine(r.recent_chat[i])]
        own == [player |-> r.player, message |-> r.message]
    IN  IF own \in Range(lines) THEN lines ELSE Append(lines, own)

\* DivineRequest.build_context: the chat lines of the context
ContextChat(r) ==
    LET keep(c) == \/ (c.player = r.player /\ c.message = r.message)
                   \/ ~is_divine_request(c.message)
        lines == [i \in DOMAIN SelectSeq(r.recent_chat, keep) |->
                    [player  |-> SelectSeq(r.recent_chat, keep)[i].player,
                     message |-> SelectSeq(r.recent_chat, keep)[i].message]]
        own == [player |-> r.player, message |-> r.message]
    IN  IF own \in Range(lines) THEN lines ELSE Append(lines, own)

\* DivineRequest.build_context: the lines of the CHAT section, and what
\* the orchestrator looks for in the text
build_context(r) ==
    LET lines == ContextChat(r)
    IN  [chat_lines |-> lines,
         chat   |-> TRUE,
         herald |-> \E i \in DOMAIN lines :
                       \/ NameInvokesHerald(lines[i].player)
                       \/ lines[i].message \cap HERALD_INVOKE_KEYWORDS # {}]

\* DivineRequestQueue.enqueue
enqueue(q, r) == Append(q, r)

\* requeue, were it to rebuild the request and lose the captured chat
RequeuedRefreshed(r) == [r EXCEPT !.attempts = @ + 1, !.recent_chat = <<>>]

\* requeue, were it to leave attempts as they are
RequeuedUncounted(r) == r

\* DivineRequestQueue.requeue: the request after "request.attempts += 1"
Requeued(r) == [r EXCEPT !.attempts = @ + 1]

\* requeue, were its comparison "<=" in place of "<"
requeue_result_inclusive(r) == Requeued(r).attempts <= MAX_ATTEMPTS

\* DivineRequestQueue.requeue: the value returned
requeue_result(r) == Requeued(r).attempts < MAX_ATTEMPTS

\* requeue, were it to put the request back whatever its attempts
requeue_always(q, r) == Append(q, Requeued(r))

\* requeue, were it to put the request at the head of the queue
requeue_at_head(q, r) == IF requeue_result(r) THEN << Requeued(r) >> \o q ELSE q

\* DivineRequestQueue.requeue: the queue afterwards
requeue(q, r) == IF requeue_result(r) THEN Append(q, Requeued(r)) ELSE q

(* ------------------------------------------------------------------ *)
(* main.py: command dicts and the activity log                         *)
(* ------------------------------------------------------------------ *)

\* A command dict. id stands for the identity of the Python object, req for
\* the request on whose behalf it was queued (0: none).
Command(id, kind, god, target, req) ==
    [id |-> id, kind |-> kind, god |-> god, target |-> target, req |-> req]

\* number the dicts of a list that is about to be appended
Stamp(cmds, base) == [i \in DOMAIN cmds |-> [cmds[i] EXCEPT !.id = base + i]]

\* _god_failure_commands, were it to return no command
no_failure_commands(god_name, target) == <<>>

\* _god_failure_commands
god_failure_commands(god_name, target) ==
    << Command(0, "failure_tellraw", god_name, target, 0),
       Command(0, "failure_playsound", god_name, target, 0) >>

\* _prayer_abandoned_commands, were it to return no command
no_abandoned_commands(r) == <<>>

\* _prayer_abandoned_commands
prayer_abandoned_commands(r) ==
    << Command(0, "abandoned_tellraw", "none", r.player, r.id),
       Command(0, "abandoned_playsound", "none", r.player, r.id) >>

\* _trigger_remember: the two commands appended
remember_commands(player) ==
    << Command(0, "remember_tellraw", "none", player, 0),
       Command(0, "remember_playsound", "none", player, 0) >>

\* the list a persona's think() returned, n commands long
ThinkCommands(god, n, req) ==
    [i \in 1..n |-> Command(0, "god_command", god, "@a", req)]

\* what command_queue.extend(commands) appends when DeepGod.think returned
\* the (commands, errors) tuple of translate_tool_calls: the list and the dict
TupleElements(req) ==
    << Command(0, "tuple_commands_list", "deep", "none", req),
       Command(0, "tuple_errors_dict", "deep", "none", req) >>

\* _log_activity, were the cap looked at after the append of a full log
log_activity_late(log, entry) ==
    IF Len(log) > ConsolidationLogMax
    THEN Append(Tail(log), entry)
    ELSE Append(log, entry)

\* _log_activity
log_activity(log, entry) ==
    IF Len(log) >= ConsolidationLogMax
    THEN Append(Tail(log), entry)
    ELSE Append(log, entry)

\* _load_consolidation_log: the log after start-up, for the list in the file
load_consolidation_log(data) ==
    SubSeq(data, 1, Min(Len(data), ConsolidationLogMax))



(* ------------------------------------------------------------------ *)
(* memory.py: the Kind God's memories                                  *)
(* ------------------------------------------------------------------ *)

\* one record of KindGodMemory.memories; timestamps are readings of the clock
Memory(content, created, updated) ==
    [content |-> content, created |-> created, updated |-> updated]

\* the memory file: absent, unreadable, or the JSON object _save writes
NoFile == [kind |-> "absent", memories |-> <<>>, consolidation_count |-> 0,
           last_consolidation |-> 0]

CorruptFile == [NoFile EXCEPT !.kind = "corrupt"]

MemoryFile(mems, count, last) ==
    [kind |-> "ok", memories |-> mems, consolidation_count |-> count,
     last_consolidation |-> last]

\* KindGodMemory.__init__ and _load: the three fields afterwards
load(file) ==
    IF file.kind = "ok"
    THEN [memories |-> file.memories,
          consolidation_count |-> file.consolidation_count,
          last_consolidation |-> file.last_consolidation]
    ELSE [memories |-> <<>>, consolidation_count |-> 0,
          last_consolidation |-> 0]

\* what the consolidation LLM call can come back with: an exception of the
\* client, text that json.loads rejects, JSON that is not a list, or a JSON
\* list. An element of the list is a string or not, and a string is given by
\* its stripped text ("" for a blank one).
LLMError == [kind |-> "error", items |-> <<>>]

NotJSON == [kind |-> "not_json", items |-> <<>>]

NotAList == [kind |-> "not_list", items |-> <<>>]

JSONList(items) == [kind |-> "list", items |-> items]

Str(text) == [is_str |-> TRUE, text |-> text]

NotStr == [is_str |-> FALSE, text |-> ""]

\* KindGodMemory.consolidate, were it to raise for a failed call alone
raises_on_error_only(reply) == reply.kind = "error"

\* KindGodMemory.consolidate raises
consolidate_raises(reply) == reply.kind # "list"

\* memory_strings[:MEMORY_MAX_ENTRIES]
clamp(items) == SubSeq(items, 1, Min(Len(items), MemoryMaxEntries))

\* old_contents.get(content, now), were no created date carried over
old_created_now(mems, content, t) == t

\* old_contents.get(content, now): a dict comprehension keeps the last
\* record of each content
old_created(mems, content, t) ==
    LET same == {i \in DOMAIN mems : mems[i].content = content}
    IN  IF same = {} THEN t
        ELSE mems[CHOOSE i \in same : \A j \in same : j <= i].created

\* KindGodMemory.consolidate: new_memories, for a reply that is a list
new_memories(mems, items, t) ==
    LET memory_strings == clamp(items)
        kept == SelectSeq(memory_strings,
                          LAMBDA it : it.is_str /\ it.text # "")
    IN  [i \in DOMAIN kept |->
            Memory(kept[i].text, old_created(mems, kept[i].text, t), t)]

(* ------------------------------------------------------------------ *)
(* The state as one record, so that the code of a handler reads as a   *)
(* composition of the functions it calls                               *)
(* ------------------------------------------------------------------ *)

Cur ==
    [now |-> now, n_events |-> n_events, n_injected |-> n_injected,
     events |-> events, latest_player_status |-> latest_player_status,
     player_status_time |-> player_status_time,
     command_queue |-> command_queue, next_cmd |-> next_cmd,
     delivered |-> delivered, budget |-> budget, prayer_queue |-> prayer_queue,
     next_req |-> next_req, consolidation_log |-> consolidation_log,
     next_log |-> next_log, force_consolidation |-> force_consolidation,
     consolidation_cooldown_until |-> consolidation_cooldown_until,
     last_consolidation |-> last_consolidation,
     consolidation_count |-> consolidation_count, memories |-> memories,
     action_count |-> action_count, deep_god_acted |-> deep_god_acted,
     last_spoke |-> last_spoke, locked |-> locked, waiters |-> waiters,
     woken |-> woken, holder |-> holder, tk_pc |-> tk_pc, tk |-> tk,
     pl_pc |-> pl_pc, request |-> request, pl |-> pl, hist |-> hist,
     last_tick |-> last_tick, held |-> held, kg |-> kg,
     buffer_calls |-> buffer_calls, pure |-> pure, dg |-> dg, dig |-> dig,
     results |-> results]

\* the next state is s
Becomes(s) ==
    /\ now' = s.now
    /\ n_events' = s.n_events
    /\ n_injected' = s.n_injected
    /\ events' = s.events
    /\ latest_player_status' = s.latest_player_status
    /\ player_status_time' = s.player_status_time
    /\ command_queue' = s.command_queue
    /\ next_cmd' = s.next_cmd
    /\ delivered' = s.delivered
    /\ budget' = s.budget
    /\ prayer_queue' = s.prayer_queue
    /\ next_req' = s.next_req
    /\ consolidation_log' = s.consolidation_log
    /\ next_log' = s.next_log
    /\ force_consolidation' = s.force_consolidation
    /\ consolidation_cooldown_until' = s.consolidation_cooldown_until
    /\ last_consolidation' = s.last_consolidation
    /\ consolidation_count' = s.consolidation_count
    /\ memories' = s.memories
    /\ action_count' = s.action_count
    /\ deep_god_acted' = s.deep_god_acted
    /\ last_spoke' = s.last_spoke
    /\ locked' = s.locked
    /\ waiters' = s.waiters
    /\ woken' = s.woken
    /\ holder' = s.holder
    /\ tk_pc' = s.tk_pc
    /\ tk' = s.tk
    /\ pl_pc' = s.pl_pc
    /\ request' = s.request
    /\ pl' = s.pl
    /\ hist' = s.hist
    /\ last_tick' = s.last_tick
    /\ held' = s.held
    /\ kg' = s.kg
    /\ buffer_calls' = s.buffer_calls
    /\ pure' = s.pure
    /\ dg' = s.dg
    /\ dig' = s.dig
    /\ results' = s.results

\* a step of a handler: s is computed once, then assigned
Apply(s) == \E t \in {s} : Becomes(t)

\* locals of a body that is not running
NoLocals == [summary |-> None, turn |-> 0, commands |-> 0,
             snapshot_len |-> 0, activity_snapshot |-> <<>>, now |-> 0]

NoTick == [outcome |-> NoName, drained |-> 0]

\* what think() returned: None or a list of commands
ReturnsNone == [is_none |-> TRUE, commands |-> <<>>]

Returns(commands) == [is_none |-> FALSE, commands |-> commands]

\* KindGod before its first think(): no call in progress, last_error None.
\* message is what the last LLM call of think() came to.
NoThink ==
    [pc |-> "idle", n |-> 0, turn |-> 0, calls |-> 0, commands |-> <<>>,
     has_searched |-> FALSE, has_built |-> FALSE, last_error |-> FALSE,
     message |-> [result |-> NoName, tool_calls |-> <<>>],
     result |-> Returns(<<>>), conversation |-> <<>>]

\* DeepGod after __init__: no think() in progress, an empty history.
\* returned is what the last think() returned, trimmed whether it cut the
\* history.
NoDeep ==
    [pc |-> "idle", conversation_history |-> <<>>, returned |-> NoName,
     trimmed |-> FALSE]

\* the content of a reply, as far as the validation looks into it: whether
\* it is wrapped in a markdown fence, whether what is inside is JSON,
\* whether that is a DigResponse, whether its params fit its action
DigContent(fenced, json, schema, params) ==
    [fenced |-> fenced, json |-> json, schema |-> schema, params |-> params]

\* DigGod before _handle_dig_response is called. round_trips counts the
\* corrective calls made, replies lists what think() passed in and what the
\* corrective calls came to.
NoDig ==
    [pc |-> "idle", content |-> DigContent(FALSE, FALSE, FALSE, FALSE),
     attempt |-> 0, found |-> FALSE, round_trips |-> 0, replies |-> <<>>,
     last_error |-> NoName, action_count |-> 0, memories |-> 0,
     returned |-> NoName, commands |-> <<>>]

(* ------------------------------------------------------------------ *)
(* Inputs                                                              *)
(* ------------------------------------------------------------------ *)

Event(type, player, message, snap, players) ==
    [type |-> type, seq |-> 0, player |-> player, message |-> message,
     snap |-> snap, players |-> players]

Chat(player, message, snap) == Event("chat", player, message, snap, {})

Status(players) == Event("player_status", "none", {}, 0, players)

\* the events the plugin posts
EventInputs ==
    { Chat("herald_fan", {}, 0),
      Chat("Steve", {"prayer"}, 1),
      Chat("Steve", {"herald"}, 1),
      Chat("Steve", {"remember"}, 1),
      Event("block_break", "Steve", {}, 0, {}),
      Status({}),
      Status({[name |-> "Steve", underground |-> TRUE]}) }

\* the replies of the consolidation LLM call where the content of the
\* memories is not looked at
PlainReplies == { LLMError, JSONList(<< Str("a") >>) }

\* what the environment may do in one behaviour, the memory file it left
\* on disk, and the requests that are waiting when the behaviour starts
Budget(inputs, n_ev, n_inj, n_polls, seconds) ==
    [inputs |-> inputs, events |-> n_ev, injected |-> n_inj,
     polls |-> n_polls, seconds |-> seconds,
     file |-> NoFile, replies |-> PlainReplies, queued |-> <<>>,
     arg |-> None, log_file |-> <<>>]

\* the state after the module is imported and lifespan() has started the two
\* loops, with the environment's budget b
InitWith(b) ==
    /\ budget = b
    /\ now = Epoch
    /\ n_events = 0
    /\ n_injected = 0
    /\ events = <<>>
    /\ latest_player_status = None
    /\ player_status_time = 0
    /\ command_queue = <<>>
    /\ next_cmd = 0
    /\ delivered = <<>>
    /\ prayer_queue = b.queued
    /\ next_req = Len(b.queued)
    /\ consolidation_log = load_consolidation_log(b.log_file)
    /\ next_log = 0
    /\ force_consolidation = FALSE
    /\ consolidation_cooldown_until = 0
    /\ last_consolidation = load(b.file).last_consolidation
    /\ consolidation_count = load(b.file).consolidation_count
    /\ memories = load(b.file).memories
    /\ action_count = 0
    /\ deep_god_acted = FALSE
    /\ last_spoke = 0
    /\ locked = FALSE
    /\ waiters = <<>>
    /\ woken = {}
    /\ holder = NoName
    /\ tk_pc = "sleep"
    /\ tk = NoLocals
    /\ pl_pc = "dequeue"
    /\ request = NoRequest
    /\ pl = NoLocals
    /\ hist = [i \in DOMAIN b.queued |->
                  [created |-> b.queued[i], taken |-> 0, starts |-> 0,
                   fails |-> 0, ends |-> 0, abandoned |-> 0]]
    /\ last_tick = NoTick
    /\ held = {}
    /\ kg = NoThink
    /\ buffer_calls = [added |-> <<>>, drains |-> <<>>]
    /\ pure = [arg |-> b.arg, returned |-> FALSE, out |-> None]
    /\ dg = NoDeep
    /\ dig = NoDig
    /\ results = [i \in DOMAIN b.queued |-> <<>>]

\* the texts of memories
Contents == << "a", "b", "c", "d" >>

\* the memory files the server may find at start-up: none, an unreadable
\* one, one that _save wrote a moment ago, and an older one with more records
\* than MEMORY_MAX_ENTRIES now allows (the ceiling is an environment setting)
MemoryFiles ==
    { NoFile,
      CorruptFile,
      MemoryFile(<< Memory("a", 5, 5) >>, 1, Epoch),
      MemoryFile([i \in 1..(MemoryMaxEntries + 1) |->
                    Memory(Contents[i], 5, 6)], 2, 6) }

\* the replies of the consolidation LLM call
ConsolidationReplies ==
    { LLMError, NotJSON, NotAList,
      JSONList(<< >>),
      JSONList(<< Str("a") >>),
      JSONList([i \in 1..(MemoryMaxEntries + 1) |-> Str(Contents[i])]),
      JSONList(<< Str(""), NotStr, Str("b") >>) }

Init ==
    \E f \in MemoryFiles :
        InitWith([Budget(EventInputs, MaxEvents, MaxInject, MaxPolls, MaxTime)
                    EXCEPT !.file = f, !.replies = ConsolidationReplies])

(* ------------------------------------------------------------------ *)
(* main.py: pieces of the handlers                                     *)
(* ------------------------------------------------------------------ *)

\* command_queue.extend(cmds) / command_queue.append(cmd)
Extend(s, cmds) ==
    [s EXCEPT !.command_queue = @ \o Stamp(cmds, s.next_cmd),
              !.next_cmd = @ + Len(cmds)]

\* _log_activity(entry), a new entry each time
LogActivity(s) ==
    [s EXCEPT !.consolidation_log = log_activity(@, s.next_log + 1),
              !.next_log = @ + 1]

\* _trigger_remember
trigger_remember(s, player) ==
    Extend([s EXCEPT !.force_consolidation = TRUE], remember_commands(player))

\* receive_event, the chat branch that queues a divine request
QueueRequest(s, e, request_type) ==
    LET r == DivineRequest(s.next_req + 1, e.player, e.message, request_type,
                           s.now, e.snap,
                           get_recent_chat(s.events, RecentChatLimit))
    IN  [s EXCEPT !.prayer_queue = enqueue(@, r),
                  !.next_req = @ + 1,
                  !.hist = Append(@, [created |-> r, taken |-> 0,
                                      starts |-> 0, fails |-> 0,
                                      ends |-> 0, abandoned |-> 0]),
                  !.results = Append(@, <<>>)]

\* receive_event
receive_event(s, ev) ==
    LET e  == [ev EXCEPT !.seq = s.n_events + 1]
        s1 == [s EXCEPT !.n_events = @ + 1,
                        !.events = BufferAdd(@, e),
                        !.latest_player_status =
                            IF e.type = "player_status" THEN e ELSE @,
                        !.player_status_time =
                            IF e.type = "player_status" THEN s.now ELSE @]
        request_type == classify_divine_request(e.message)
    IN  IF e.type = "player_join" THEN LogActivity(s1)
        ELSE IF e.type # "chat" THEN s1
        ELSE IF request_type = "remember"
             THEN trigger_remember(LogActivity(s1), e.player)
        ELSE IF request_type # NoName
             THEN QueueRequest(LogActivity(s1), e, request_type)
        ELSE LogActivity(s1)

\* get_commands, were it to return a copy made before the last append
get_commands_stale(q) == IF q = << >> THEN q ELSE SubSeq(q, 1, Len(q) - 1)

\* get_commands: the list returned
get_commands_returned(q) == q

\* get_commands, were it to leave the list in place
get_commands_kept(q) == q

\* get_commands: command_queue afterwards
get_commands_left(q) == <<>>

\* get_commands
get_commands(s) ==
    [s EXCEPT !.delivered = Append(@, get_commands_returned(s.command_queue)),
              !.command_queue = get_commands_left(s.command_queue)]

\* inject_commands, with one command
inject_commands(s) ==
    Extend([s EXCEPT !.n_injected = @ + 1],
           << Command(0, "injected", "none", "none", 0) >>)

(* ------------------------------------------------------------------ *)
(* asyncio.Lock, as _tick_lock is used                                 *)
(* ------------------------------------------------------------------ *)

\* Lock.acquire, were it to look at the waiters alone
CanAcquireUnlocked(s) == s.waiters = <<>>

\* Lock.acquire returns without suspending
CanAcquire(s) == ~s.locked /\ s.waiters = <<>>

\* Lock.acquire, fast path
Acquire(s, task) == [s EXCEPT !.locked = TRUE, !.holder = task]

\* Lock.acquire, slow path: queue a future and suspend
Wait(s, task) == [s EXCEPT !.waiters = Append(@, task)]

\* Lock.acquire, resumed after its future was set
Granted(s, task) ==
    [s EXCEPT !.waiters = SelectSeq(@, LAMBDA t : t # task),
              !.woken = @ \ {task},
              !.locked = TRUE,
              !.holder = task]

\* Lock.release: unlock and set the future of the first waiter
Release(s) ==
    [s EXCEPT !.locked = FALSE,
              !.holder = NoName,
              !.woken = IF s.waiters # <<>> THEN @ \cup {Head(s.waiters)} ELSE @]



(* ------------------------------------------------------------------ *)
(* The personas, as far as the orchestrator depends on them            *)
(* ------------------------------------------------------------------ *)

\* DeepGod.should_act: the player records its location triggers look at
RelevantPlayers(status, praying_player) ==
    IF status = None THEN {}
    ELSE {p \in status.players :
            praying_player = NoName \/ p.name = praying_player}

\* DeepGod.should_act; roll is the outcome of "random.random() < chance".
\* A player record carries underground: below Y=30 or in the nether, the
\* cases in which chance is above 0.
should_act(summary, status, kind_god_action_count, praying_player, roll) ==
    IF kind_god_action_count >= KindGodActionThreshold THEN TRUE
    ELSE IF summary = None /\ status = None THEN FALSE
    ELSE /\ \E p \in RelevantPlayers(status, praying_player) : p.underground
         /\ roll

\* HeraldGod.should_act
herald_should_act(s, summary) ==
    IF summary = None THEN FALSE
    ELSE IF s.now - s.last_spoke < HeraldCooldown THEN FALSE
    ELSE summary.chat /\ summary.herald

Failed == [result |-> "fail"]

\* What one LLM call of KindGod.think can come to: the call fails, or the
\* reply is handled: cmds commands validated, as many tool calls that count
\* as actions, and more: the loop goes on (a search, a rejected call, a
\* nudge).
KindReplies ==
    {Failed} \cup
    {[result |-> "reply", more |-> m, cmds |-> c, real |-> c] :
        m \in BOOLEAN, c \in 0..MaxThinkCmds}

\* HeraldGod.think: the call fails, or cmds commands are returned and real
\* says whether a tool call other than do_nothing was made
HeraldReplies ==
    {Failed} \cup
    {o \in [result : {"reply"}, cmds : 0..MaxThinkCmds, real : BOOLEAN] :
        o.cmds > 0 => o.real}

\* DeepGod.think: the call fails, or the reply has tool calls or has none
DeepReplies ==
    {Failed} \cup {[result |-> "reply", tool_calls |-> t] : t \in BOOLEAN}

(* ------------------------------------------------------------------ *)
(* main.py: _prayer_loop and _process_divine_request                   *)
(* ------------------------------------------------------------------ *)

\* "if not prayer_queue.requeue(request):
\*      command_queue.extend(_prayer_abandoned_commands(request.player))"
RequeueOrAbandon(s, r) ==
    LET s1 == [s EXCEPT !.prayer_queue = requeue(@, r),
                        !.request = Requeued(r),
                        !.results[r.id] = Append(@, requeue_result(r))]
    IN  IF requeue_result(r) THEN s1
        ELSE Extend([s1 EXCEPT !.hist[r.id].abandoned = @ + 1],
                    prayer_abandoned_commands(r))

\* the end of "async with _tick_lock" in _prayer_loop and the next turn of
\* its loop, up to "await prayer_queue.dequeue()"
FinishRequest(s) ==
    [Release(s) EXCEPT !.pl_pc = "dequeue", !.request = NoRequest,
                       !.pl = NoLocals, !.hist[s.request.id].ends = @ + 1]

\* _process_divine_request: "if commands is None: ... requeue ...; return"
FailRequest(s) ==
    FinishRequest(RequeueOrAbandon(
        [s EXCEPT !.hist[s.request.id].fails = @ + 1], s.request))

\* an exception leaves _process_divine_request: the lock is released and the
\* handler of _prayer_loop requeues the request
RequestRaises(s, llm_failed) ==
    LET s1 == IF llm_failed
              THEN [s EXCEPT !.hist[s.request.id].fails = @ + 1]
              ELSE s
        r  == s.request
    IN  [RequeueOrAbandon(Release(s1), r) EXCEPT
            !.pl_pc = "dequeue", !.request = NoRequest, !.pl = NoLocals,
            !.hist[r.id].ends = @ + 1]

\* _process_divine_request from "if commands:" on, with n commands returned
AnswerRequest(s, god, n) ==
    LET r  == s.request
        s2 == IF n > 0
              THEN LogActivity(Extend(s, ThinkCommands(god, n, r.id)))
              ELSE s
    IN  IF r.request_type = "prayer" /\ herald_should_act(s2, s2.pl.summary)
        THEN [s2 EXCEPT !.pl_pc = "herald_also"]
        ELSE FinishRequest(s2)

\* _process_divine_request up to its first LLM call; the lock is held
StartRequest(s, r, roll) ==
    LET event_summary == build_context(r)
        player_status == get_player_status(s)
        s1 == [s EXCEPT !.request = r,
                        !.hist[r.id].starts = @ + 1,
                        !.pl = [NoLocals EXCEPT !.summary = event_summary]]
    IN  IF r.request_type = "herald"
        THEN [s1 EXCEPT !.pl_pc = "herald"]
        ELSE IF should_act(event_summary, player_status, s.action_count,
                           r.player, roll)
        THEN [Extend(s1, << Command(0, "intercept_tellraw", "deep",
                                    r.player, r.id) >>)
                EXCEPT !.pl_pc = "deep"]
        ELSE [s1 EXCEPT !.pl_pc = "kind", !.deep_god_acted = FALSE]

\* _prayer_loop from the return of dequeue() to the next suspension
prayer_loop_dequeued(s, roll) ==
    LET r  == Head(s.prayer_queue)
        s1 == [s EXCEPT !.prayer_queue = Tail(@), !.request = r,
                        !.hist[r.id].taken = @ + 1]
    IN  IF CanAcquire(s1)
        THEN StartRequest(Acquire(s1, "prayer"), r, roll)
        ELSE [Wait(s1, "prayer") EXCEPT !.pl_pc = "lock_wait"]

\* herald_god.think returned, for a herald invocation
request_herald_return(s, o) ==
    IF o.result = "fail" THEN FailRequest(s)
    ELSE AnswerRequest(
            [s EXCEPT !.last_spoke = IF o.real THEN s.now ELSE @],
            "herald", o.cmds)

\* deep_god.think returned, for a prayer
request_deep_return(s, o) ==
    IF o.result = "fail"
    THEN \* "error": deep_god.last_error raises AttributeError
         RequestRaises(s, TRUE)
    ELSE LET s1 == [s EXCEPT !.deep_god_acted = TRUE, !.action_count = 0]
         IN  IF o.tool_calls
             THEN \* think returned the tuple of translate_tool_calls:
                  \* extend() queues its two elements, c.get raises
                  RequestRaises(Extend(s1, TupleElements(s.request.id)), FALSE)
             ELSE AnswerRequest(s1, "deep", 0)

\* one LLM call of kind_god.think returned, for a prayer
request_kind_return(s, o) ==
    IF o.result = "fail"
    THEN IF s.pl.turn = 0 THEN FailRequest(s)
         ELSE AnswerRequest(s, "kind", s.pl.commands)
    ELSE LET s1 == [s EXCEPT !.pl.commands = @ + o.cmds,
                             !.action_count = @ + o.real]
         IN  IF o.more /\ s.pl.turn + 1 < KindMaxTurns
             THEN [s1 EXCEPT !.pl.turn = @ + 1]
             ELSE AnswerRequest(s1, "kind", s1.pl.commands)

\* herald_god.think returned, after a prayer was answered
request_herald_also_return(s, o) ==
    IF o.result = "fail"
    THEN FinishRequest(Extend(s, god_failure_commands("herald", "@a")))
    ELSE LET s1 == [s EXCEPT !.last_spoke = IF o.real THEN s.now ELSE @]
         IN  IF o.cmds > 0
             THEN FinishRequest(LogActivity(
                     Extend(s1, ThinkCommands("herald", o.cmds, s.request.id))))
             ELSE FinishRequest(s1)



(* ------------------------------------------------------------------ *)
(* main.py: _god_tick_loop, _god_tick, _maybe_consolidate and          *)
(* _god_tick_inner                                                     *)
(* ------------------------------------------------------------------ *)

\* the end of "async with _tick_lock" in _god_tick and the next turn of
\* _god_tick_loop, up to "await asyncio.sleep(GOD_TICK_INTERVAL)"
FinishTick(s) == [Release(s) EXCEPT !.tk_pc = "sleep", !.tk = NoLocals]

\* what the part of the tick body after _maybe_consolidate did
NoteTick(s0, s1, outcome) ==
    [s1 EXCEPT !.last_tick =
        [outcome |-> outcome, drained |-> Len(s0.events) - Len(s1.events)]]

\* the no-players branch, were it to return without draining
idle_keep(evs) == evs

\* the buffer after the drain_and_summarize of the no-players branch
idle_drain(evs) == <<>>

\* _god_tick_inner after "await _maybe_consolidate()", up to the LLM call
players_check(s, roll) ==
    LET player_status == get_player_status(s)
        event_summary == drain_and_summarize(s.events, s.latest_player_status)
        drained == [s EXCEPT !.events = drained_events(@)]
    IN  IF NoPlayersOnline(player_status)
        THEN NoteTick(s, FinishTick([s EXCEPT !.events = idle_drain(@)]),
                      "no_players")
        ELSE IF event_summary = None
        THEN NoteTick(s, FinishTick(drained), "no_events")
        ELSE IF should_act(event_summary, player_status, s.action_count,
                           NoName, roll)
        THEN NoteTick(s, [drained EXCEPT !.tk_pc = "deep",
                                         !.tk.summary = event_summary],
                      "deep")
        ELSE NoteTick(s, [drained EXCEPT !.tk_pc = "kind",
                                         !.tk.summary = event_summary,
                                         !.deep_god_acted = FALSE],
                      "kind")

\* _maybe_consolidate, were it to leave the interval out
interval_ignored(s) == FALSE

\* KindGodMemory.seconds_since_consolidation() <
\* MEMORY_CONSOLIDATION_INTERVAL_SECONDS
TooSoon(s) ==
    /\ s.last_consolidation # 0
    /\ s.now - s.last_consolidation < ConsolidationInterval

\* _maybe_consolidate from "snapshot_len = ..." to the LLM call
start_consolidation(s) ==
    [s EXCEPT !.tk_pc = "consolidate",
              !.tk.snapshot_len = Len(s.consolidation_log),
              !.tk.activity_snapshot = s.consolidation_log,
              !.tk.now = s.now,
              !.last_tick = [NoTick EXCEPT !.outcome = "consolidating"]]

\* _god_tick_inner from its start; the lock is held
tick_body(s, roll) ==
    IF s.consolidation_log = <<>>
    THEN players_check([s EXCEPT !.force_consolidation = FALSE], roll)
    ELSE IF s.force_consolidation
    THEN start_consolidation([s EXCEPT !.force_consolidation = FALSE])
    ELSE IF s.now < s.consolidation_cooldown_until THEN players_check(s, roll)
    ELSE IF TooSoon(s) THEN players_check(s, roll)
    ELSE start_consolidation(s)

\* _god_tick, were it to go for the lock without looking
tick_never_sees_lock(s) == FALSE

\* _god_tick: "if _tick_lock.locked()"
tick_sees_lock_held(s) == s.locked

\* _god_tick, entered when the sleep of _god_tick_loop is over
god_tick(s, roll) ==
    IF tick_sees_lock_held(s)
    THEN [s EXCEPT !.last_tick = [NoTick EXCEPT !.outcome = "skipped"]]
    ELSE IF CanAcquire(s)
    THEN tick_body(Acquire(s, "tick"), roll)
    ELSE [Wait(s, "tick") EXCEPT
            !.tk_pc = "lock_wait",
            !.last_tick = [NoTick EXCEPT !.outcome = "waiting"]]

\* the log after "del _consolidation_log[:snapshot_len]"
delete_snapshot(log, snapshot_len) == DropFirst(log, snapshot_len)

\* kind_god.memory.consolidate returned or raised; the rest of
\* _maybe_consolidate and of the tick body up to its next LLM call
consolidate_return(s, reply, roll) ==
    IF ~consolidate_raises(reply)
    THEN players_check(
            [s EXCEPT !.memories = new_memories(@, reply.items, s.now),
                      !.last_consolidation = s.now,
                      !.consolidation_count = @ + 1,
                      !.consolidation_log =
                          delete_snapshot(@, s.tk.snapshot_len)], roll)
    ELSE players_check(
            [s EXCEPT !.consolidation_cooldown_until =
                          s.tk.now + ConsolidationInterval], roll)

\* _god_tick_inner from "The Herald speaks independently" on
tick_herald_check(s) ==
    IF herald_should_act(s, s.tk.summary)
    THEN [s EXCEPT !.tk_pc = "herald"]
    ELSE FinishTick(s)

\* _god_tick_inner from "if commands:" on, with n commands
tick_commands(s, god, n) ==
    IF n > 0
    THEN tick_herald_check(LogActivity(Extend(s, ThinkCommands(god, n, 0))))
    ELSE tick_herald_check(s)

\* deep_god.think returned, in a tick
tick_deep_return(s, o) ==
    IF o.result = "fail"
    THEN \* the failure notice is queued, then "error": deep_god.last_error
         \* raises AttributeError, which _god_tick_loop logs
         FinishTick(Extend(s, god_failure_commands("deep", "@a")))
    ELSE LET s1 == [s EXCEPT !.deep_god_acted = TRUE, !.action_count = 0]
         IN  IF o.tool_calls
             THEN FinishTick(Extend(s1, TupleElements(0)))
             ELSE tick_commands(s1, "deep", 0)

\* one LLM call of kind_god.think returned, in a tick
tick_kind_return(s, o) ==
    IF o.result = "fail"
    THEN IF s.tk.turn = 0
         THEN tick_commands(Extend(s, god_failure_commands("kind", "@a")),
                            "kind", 0)
         ELSE tick_commands(s, "kind", s.tk.commands)
    ELSE LET s1 == [s EXCEPT !.tk.commands = @ + o.cmds,
                             !.action_count = @ + o.real]
         IN  IF o.more /\ s.tk.turn + 1 < KindMaxTurns
             THEN [s1 EXCEPT !.tk.turn = @ + 1]
             ELSE tick_commands(s1, "kind", s1.tk.commands)

\* herald_god.think returned, in a tick
tick_herald_return(s, o) ==
    IF o.result = "fail"
    THEN FinishTick(Extend(s, god_failure_commands("herald", "@a")))
    ELSE LET s1 == [s EXCEPT !.last_spoke = IF o.real THEN s.now ELSE @]
         IN  IF o.cmds > 0
             THEN FinishTick(LogActivity(
                     Extend(s1, ThinkCommands("herald", o.cmds, 0))))
             ELSE FinishTick(s1)

\* a task suspended in Lock.acquire runs again
lock_granted(s, task, roll) ==
    IF task = "prayer"
    THEN StartRequest(Granted(s, "prayer"), s.request, roll)
    ELSE tick_body(Granted(s, "tick"), roll)

(* ------------------------------------------------------------------ *)
(* Actions                                                             *)
(* ------------------------------------------------------------------ *)

\* POST /event
ReceiveEvent ==
    /\ n_events < budget.events
    /\ \E e \in budget.inputs : Apply(receive_event(Cur, e))

\* GET /commands
GetCommands ==
    /\ Len(delivered) < budget.polls
    /\ Apply(get_commands(Cur))

\* POST /commands
InjectCommands ==
    /\ n_injected < budget.injected
    /\ Apply(inject_commands(Cur))

\* the wall clock
AdvanceTime ==
    /\ now < Epoch + budget.seconds
    /\ Apply([Cur EXCEPT !.now = @ + 1])

\* a consumer that takes the next request while one is being processed
prayer_loop_always_ready == TRUE

\* the consumer may take the next request
prayer_loop_ready == pl_pc = "dequeue"

\* _prayer_loop: dequeue() returns
PrayerDequeue ==
    /\ prayer_loop_ready
    /\ prayer_queue # <<>>
    /\ \E roll \in BOOLEAN : Apply(prayer_loop_dequeued(Cur, roll))

\* a future of _tick_lock that was set resumes its task
LockGranted ==
    \E task \in woken, roll \in BOOLEAN : Apply(lock_granted(Cur, task, roll))

RequestHeraldReturn ==
    /\ pl_pc = "herald"
    /\ \E o \in HeraldReplies :
         Apply(request_herald_return(Cur, o))

RequestDeepReturn ==
    /\ pl_pc = "deep"
    /\ \E o \in DeepReplies :
         Apply(request_deep_return(Cur, o))

RequestKindReturn ==
    /\ pl_pc = "kind"
    /\ \E o \in KindReplies :
         Apply(request_kind_return(Cur, o))

RequestHeraldAlsoReturn ==
    /\ pl_pc = "herald_also"
    /\ \E o \in HeraldReplies :
         Apply(request_herald_also_return(Cur, o))

\* _god_tick_loop: the sleep is over. A task whose future was set is already
\* in the ready queue of the event loop and runs before the timer that
\* _god_tick_loop starts afterwards can expire.
TickFire ==
    /\ tk_pc = "sleep"
    /\ woken = {}
    /\ \E roll \in BOOLEAN : Apply(god_tick(Cur, roll))

TickConsolidateReturn ==
    /\ tk_pc = "consolidate"
    /\ \E reply \in budget.replies, roll \in BOOLEAN :
         Apply(consolidate_return(Cur, reply, roll))

TickDeepReturn ==
    /\ tk_pc = "deep"
    /\ \E o \in DeepReplies :
         Apply(tick_deep_return(Cur, o))

TickKindReturn ==
    /\ tk_pc = "kind"
    /\ \E o \in KindReplies :
         Apply(tick_kind_return(Cur, o))

TickHeraldReturn ==
    /\ tk_pc = "herald"
    /\ \E o \in HeraldReplies :
         Apply(tick_herald_return(Cur, o))

\* The whole program. The properties below are stated for compositions of
\* these actions that fix the part of the environment a property depends
\* on; each action is the same whole handler in every composition.
Next ==
    \/ ReceiveEvent
    \/ GetCommands
    \/ InjectCommands
    \/ AdvanceTime
    \/ PrayerDequeue
    \/ LockGranted
    \/ RequestHeraldReturn
    \/ RequestDeepReturn
    \/ RequestKindReturn
    \/ RequestHeraldAlsoReturn
    \/ TickFire
    \/ TickConsolidateReturn
    \/ TickDeepReturn
    \/ TickKindReturn
    \/ TickHeraldReturn

Spec == Init /\ [][Next]_vars

(* ------------------------------------------------------------------ *)
(* The request loop and the tick loop, with the events that reach      *)
(* every persona call of both                                          *)
(* ------------------------------------------------------------------ *)

LoopInputs ==
    { Chat("herald_fan", {}, 0),
      Chat("Steve", {"prayer"}, 1),
      Chat("Steve", {"herald"}, 1),
      Event("block_break", "Steve", {}, 0, {}),
      Status({[name |-> "Steve", underground |-> TRUE]}) }

InitLoops == InitWith(Budget(LoopInputs, MaxEvents, 0, 0, 0))

NextLoops ==
    \/ ReceiveEvent
    \/ PrayerDequeue
    \/ LockGranted
    \/ RequestHeraldReturn
    \/ RequestDeepReturn
    \/ RequestKindReturn
    \/ RequestHeraldAlsoReturn
    \/ TickFire
    \/ TickConsolidateReturn
    \/ TickDeepReturn
    \/ TickKindReturn
    \/ TickHeraldReturn

SpecLoops == InitLoops /\ [][NextLoops]_vars

(* ------------------------------------------------------------------ *)
(* The command queue: the poll and the producers outside the tick      *)
(* ------------------------------------------------------------------ *)

PollInputs ==
    { Chat("Steve", {"prayer"}, 1),
      Chat("Steve", {"remember"}, 1) }

InitPoll == InitWith(Budget(PollInputs, MaxEvents, MaxInject, MaxPolls, 0))

NextPoll ==
    \/ ReceiveEvent
    \/ GetCommands
    \/ InjectCommands
    \/ PrayerDequeue
    \/ RequestKindReturn

SpecPoll == InitPoll /\ [][NextPoll]_vars

(* ------------------------------------------------------------------ *)
(* The tick loop alone, with the clock                                 *)
(* ------------------------------------------------------------------ *)

TickInputs ==
    { Chat("herald_fan", {}, 0),
      Event("block_break", "Steve", {}, 0, {}),
      Status({}),
      Status({[name |-> "Steve", underground |-> TRUE]}) }

InitTick == InitWith(Budget(TickInputs, TickEvents, 0, 0, MaxTime))

NextTick ==
    \/ ReceiveEvent
    \/ AdvanceTime
    \/ TickFire
    \/ TickConsolidateReturn
    \/ TickDeepReturn
    \/ TickKindReturn
    \/ TickHeraldReturn

SpecTick == InitTick /\ [][NextTick]_vars

(* ------------------------------------------------------------------ *)
(* The request queue alone, driven through its API by a caller         *)
(* ------------------------------------------------------------------ *)

\* DivineRequestQueue.dequeue: the caller holds the head
q_dequeue(s) ==
    [s EXCEPT !.prayer_queue = Tail(@),
              !.held = @ \cup {Head(s.prayer_queue)}]

\* DivineRequestQueue.requeue(r), called with a request the caller holds
q_requeue(s, r) ==
    [s EXCEPT !.prayer_queue = requeue(@, r),
              !.held = @ \ {r},
              !.results[r.id] = Append(@, requeue_result(r))]

\* a request is built and enqueued, as receive_event does
QEnqueue ==
    /\ next_req < MaxRequests
    /\ Apply(QueueRequest(Cur, Chat("Steve", {"prayer"}, 1), "prayer"))

QDequeue ==
    /\ prayer_queue # <<>>
    /\ Apply(q_dequeue(Cur))

QRequeue == \E r \in held : Apply(q_requeue(Cur, r))

InitQueue == InitWith(Budget({}, 0, 0, 0, 0))

NextQueue ==
    \/ QEnqueue
    \/ QDequeue
    \/ QRequeue

SpecQueue == InitQueue /\ [][NextQueue]_vars

(* ------------------------------------------------------------------ *)
(* The tick loop with the Kind God's memory: chat fills the activity   *)
(* log, "remember" forces a consolidation, the clock advances, and the *)
(* consolidation call comes back in every way it can                   *)
(* ------------------------------------------------------------------ *)

MemoryInputs ==
    { Chat("herald_fan", {}, 0),
      Chat("Steve", {"remember"}, 1),
      Status({[name |-> "Steve", underground |-> TRUE]}) }

InitMemory ==
    \E f \in MemoryFiles :
        InitWith([Budget(MemoryInputs, MaxEvents, 0, 0, MaxTime)
                    EXCEPT !.file = f, !.replies = ConsolidationReplies])

NextMemory ==
    \/ ReceiveEvent
    \/ AdvanceTime
    \/ TickFire
    \/ TickConsolidateReturn
    \/ TickDeepReturn
    \/ TickKindReturn
    \/ TickHeraldReturn

SpecMemory == InitMemory /\ [][NextMemory]_vars

(* ------------------------------------------------------------------ *)
(* kind_god.py: KindGod.think, turn by turn                            *)
(* ------------------------------------------------------------------ *)

\* a tool call of a reply; valid says whether translate_tool_calls accepts
\* its arguments
Call(name, valid) == [name |-> name, valid |-> valid]

SEARCH_TOOLS == {"search_schematics"}

ToolCalls ==
    { Call("search_schematics", TRUE), Call("do_nothing", TRUE),
      Call("send_message", TRUE), Call("send_message", FALSE),
      Call("build_schematic", TRUE) }

\* what one LLM call of think() can come to: an exception, or a message with
\* no, some, or more tool calls than MAX_TOOL_CALLS_PER_RESPONSE
ThinkFailed == [result |-> "fail", tool_calls |-> <<>>]

ThinkReplies ==
    {ThinkFailed} \cup
    { [result |-> "reply", tool_calls |-> tcs] :
        tcs \in UNION { [1..k -> ToolCalls] : k \in 0..ToolCallCap } } \cup
    { [result |-> "reply", tool_calls |-> tcs \o << tc >>] :
        tcs \in [1..ToolCallCap -> {Call("do_nothing", TRUE)}],
        tc \in ToolCalls }

\* message.tool_calls[:MAX_TOOL_CALLS_PER_RESPONSE]
cap_tool_calls(tcs) == SubSeq(tcs, 1, Min(Len(tcs), ToolCallCap))

\* translate_tool_calls: the commands, one per accepted call that is not
\* do_nothing
translated(calls) ==
    LET ok == SelectSeq(calls, LAMBDA tc : tc.valid /\ tc.name # "do_nothing")
    IN  [i \in DOMAIN ok |-> ok[i].name]

\* translate_tool_calls: the calls it reports an error for
rejected(calls) == SelectSeq(calls, LAMBDA tc : ~tc.valid)

\* A message of a conversation. tool_calls lists the ids of an assistant
\* message's calls, tool_call_id is the id a tool message answers (0: none),
\* content tells the texts apart that the code chooses between.
Message(role, tool_calls, tool_call_id, content) ==
    [role |-> role, tool_calls |-> tool_calls, tool_call_id |-> tool_call_id,
     content |-> content]

UserMessage(content) == Message("user", <<>>, 0, content)

\* the id of the i-th tool call of a reply
CallId(i) == i

\* think(), were the assistant message to list every call of the reply
assistant_uncapped(reply, tool_calls) ==
    Message("assistant", [i \in DOMAIN reply.tool_calls |-> CallId(i)], 0,
            "reply")

\* think(): the assistant message, listing the capped tool calls
assistant_message(reply, tool_calls) ==
    Message("assistant", [i \in DOMAIN tool_calls |-> CallId(i)], 0, "reply")

\* think(), were a rejected call to be answered "ok" like an accepted one
tool_result_ok(tc) == "ok"

\* think(): the content of the tool message for a call: the search result,
\* the error text of translate_tool_calls, or "ok"
tool_result(tc) ==
    IF tc.name \in SEARCH_TOOLS THEN "search_result"
    ELSE IF ~tc.valid THEN "error"
    ELSE "ok"

\* think(): "for tc in tool_calls: conversation.append({"role": "tool", ...})"
tool_messages(tool_calls) ==
    [i \in DOMAIN tool_calls |->
        Message("tool", <<>>, CallId(i), tool_result(tool_calls[i]))]

\* think(): conversation.append of a "[SYSTEM] ..." user message
nudge(s) == [s EXCEPT !.kg.conversation = Append(@, UserMessage("nudge"))]

\* think(), were a failed call to discard the commands of earlier turns
any_call(turn) == TRUE

\* think(): "if turn == 0" in the except branch
first_call(turn) == turn = 0

\* think() returns; its conversation is a local and is gone
think_return(s, result) ==
    [s EXCEPT !.kg.pc = "returned", !.kg.result = result,
              !.kg.conversation = <<>>]

\* "continue", were the loop "while True"
think_continue_unbounded(s) == [s EXCEPT !.kg.turn = @ + 1]

\* think(): "continue", and the return after the last turn
think_continue(s) ==
    IF s.kg.turn + 1 < KindMaxTurns
    THEN [s EXCEPT !.kg.turn = @ + 1]
    ELSE think_return(s, Returns(s.kg.commands))

\* think() from its start to the first LLM call
think_call(s) ==
    [s EXCEPT !.deep_god_acted = FALSE,
              !.kg = [NoThink EXCEPT !.pc = "llm", !.n = s.kg.n + 1,
                                     !.last_error = s.kg.last_error,
                                     !.conversation =
                                         << UserMessage("update") >>]]

\* think(): one LLM call came back; up to the next call or the return
think_reply(s, reply) ==
    LET k == [s.kg EXCEPT !.calls = @ + 1, !.message = reply]
        s0 == [s EXCEPT !.kg = k]
    IN  IF reply.result = "fail"
        THEN LET s1 == [s0 EXCEPT !.kg.last_error = TRUE]
             IN  IF first_call(k.turn)
                 THEN think_return(s1, ReturnsNone)
                 ELSE think_return(s1, Returns(k.commands))
        ELSE IF reply.tool_calls = <<>>
        THEN LET s1 == [s0 EXCEPT !.kg.conversation =
                           Append(@, Message("assistant", <<>>, 0, "reply"))]
             IN  IF k.has_searched /\ ~k.has_built
                 THEN think_continue(nudge([s1 EXCEPT !.kg.has_built = TRUE]))
                 ELSE think_return(s1, Returns(k.commands))
        ELSE
          LET tool_calls == cap_tool_calls(reply.tool_calls)
              search_calls ==
                  SelectSeq(tool_calls, LAMBDA tc : tc.name \in SEARCH_TOOLS)
              action_calls ==
                  SelectSeq(tool_calls, LAMBDA tc : tc.name \notin SEARCH_TOOLS)
              action_errors == rejected(action_calls)
              real_actions ==
                  SelectSeq(action_calls, LAMBDA tc : tc.name # "do_nothing")
              has_built ==
                  \/ k.has_built
                  \/ \E i \in DOMAIN action_calls :
                        action_calls[i].name = "build_schematic"
              s1 == [s0 EXCEPT !.kg.commands = @ \o translated(action_calls),
                               !.action_count = @ + Len(real_actions),
                               !.kg.has_built = has_built,
                               !.kg.conversation =
                                   Append(@, assistant_message(reply,
                                                               tool_calls))
                                   \o tool_messages(tool_calls)]
          IN  IF action_errors # <<>> THEN think_continue(s1)
              ELSE IF search_calls # <<>>
              THEN think_continue(
                      [(IF k.has_searched THEN nudge(s1) ELSE s1)
                          EXCEPT !.kg.has_searched = TRUE])
              ELSE IF k.has_searched /\ ~has_built /\ action_calls # <<>>
              THEN think_continue(nudge(s1))
              ELSE think_return(s1, Returns(s1.kg.commands))

\* a caller calls kind_god.think(event_summary)
ThinkCall ==
    /\ kg.pc # "llm"
    /\ kg.n < MaxThinks
    /\ Apply(think_call(Cur))

\* the LLM call of think() returns or raises
ThinkReply ==
    /\ kg.pc = "llm"
    /\ \E reply \in ThinkReplies : Apply(think_reply(Cur, reply))

InitThink == InitWith(Budget({}, 0, 0, 0, 0))

NextThink ==
    \/ ThinkCall
    \/ ThinkReply

SpecThink == InitThink /\ [][NextThink]_vars

(* ------------------------------------------------------------------ *)
(* The event buffer alone, driven through its API by a caller          *)
(* ------------------------------------------------------------------ *)

BufferInputs ==
    { Chat("Alex", {}, 0),
      Chat("Steve", {"prayer"}, 0),
      Chat("Steve", {"guide"}, 0),
      Event("block_break", "Steve", {}, 0, {}),
      Status({[name |-> "Steve", underground |-> FALSE]}) }

\* EventBuffer.add(event), the n-th event of the behaviour
buffer_add(s, ev) ==
    LET e == [ev EXCEPT !.seq = s.n_events + 1]
    IN  [s EXCEPT !.n_events = @ + 1,
                  !.events = BufferAdd(@, e),
                  !.latest_player_status =
                      IF e.type = "player_status" THEN e ELSE @,
                  !.player_status_time =
                      IF e.type = "player_status" THEN s.now ELSE @,
                  !.buffer_calls.added = Append(@, e)]

\* EventBuffer.drain_and_summarize(filter_divine=...)
buffer_drain(s, filter_divine) ==
    [s EXCEPT !.events = drained_events(@),
              !.buffer_calls.drains =
                  Append(@, [taken |-> s.events,
                             filter_divine |-> filter_divine,
                             digest |-> digest(s.events,
                                               s.latest_player_status,
                                               filter_divine)])]

BAdd ==
    /\ n_events < BufferEvents
    /\ \E e \in BufferInputs : Apply(buffer_add(Cur, e))

BDrain ==
    /\ Len(buffer_calls.drains) < MaxDrains
    /\ \E filter_divine \in BOOLEAN : Apply(buffer_drain(Cur, filter_divine))

InitBuffer == InitWith(Budget({}, 0, 0, 0, 0))

NextBuffer ==
    \/ BAdd
    \/ BDrain

SpecBuffer == InitBuffer /\ [][NextBuffer]_vars

(* ------------------------------------------------------------------ *)
(* The request loop alone, with one request waiting whose captured     *)
(* chat is any sequence of lines of three players                      *)
(* ------------------------------------------------------------------ *)

ContextLines ==
    { Chat("herald_fan", {}, 0),
      Chat("Alex", {"prayer"}, 1),
      Chat("Steve", {"prayer"}, 1),
      Chat("Steve", {"guide"}, 1) }

ContextChats == UNION { [1..k -> ContextLines] : k \in 0..MaxChat }

\* the requests receive_event builds from a line that asks for one
ContextRequests ==
    { DivineRequest(1, c.player, c.message,
                    classify_divine_request(c.message), Epoch, c.snap, chat) :
        c \in {l \in ContextLines : classify_divine_request(l.message) # NoName},
        chat \in ContextChats }

InitContext ==
    \E r \in ContextRequests :
        InitWith([Budget({}, 0, 0, 0, 0) EXCEPT !.queued = << r >>])

\* no beacon is cached, so a prayer is never routed to the Deep God
NextContext ==
    \/ PrayerDequeue
    \/ RequestHeraldReturn
    \/ RequestKindReturn
    \/ RequestHeraldAlsoReturn

SpecContext == InitContext /\ [][NextContext]_vars

(* ------------------------------------------------------------------ *)
(* classify_divine_request and is_divine_request, called on a message   *)
(* ------------------------------------------------------------------ *)

\* the words of a message: one per keyword class, in either case, and a
\* word that is no keyword
Words == {"remember", "Remember", "dig", "DIG", "prayer", "Prayer",
          "herald", "HERALD", "guide", "hello"}

Messages == SUBSET Words

\* a caller of the two functions, with the message in pure.arg
classify_call(s) ==
    [s EXCEPT !.pure.returned = TRUE,
              !.pure.out =
                  [request_type |-> classify_divine_request(s.pure.arg),
                   is_divine |-> is_divine_request(s.pure.arg)]]

Classify ==
    /\ ~pure.returned
    /\ Apply(classify_call(Cur))

InitClassify ==
    \E message \in Messages :
        InitWith([Budget({}, 0, 0, 0, 0) EXCEPT !.arg = message])

NextClassify == Classify

SpecClassify == InitClassify /\ [][NextClassify]_vars

(* ------------------------------------------------------------------ *)
(* commands.py: validation of tool-call arguments                      *)
(* ------------------------------------------------------------------ *)

\* A tool call is [id, name, arguments]; arguments is the JSON text the LLM
\* wrote: NotJSONArgs when json.loads rejects it, NotObjectArgs when it is
\* JSON but no object (a list, say), else Args(d) with d the dict, a function
\* from keys to strings and integers.
NotJSONArgs == [json |-> FALSE, object |-> FALSE, args |-> << >>]

NotObjectArgs == [json |-> TRUE, object |-> FALSE, args |-> << >>]

Args(d) == [json |-> TRUE, object |-> TRUE, args |-> d]

ToolCall(id, name, arguments) ==
    [id |-> id, name |-> name, arguments |-> arguments]

\* args.get(k, default), as the pydantic models fill in their defaults
Get(args, k, default) == IF k \in DOMAIN args THEN args[k] ELSE default

ALLOWED_COMMANDS ==
    {"summon", "say", "tellraw", "weather", "effect", "tp", "teleport",
     "give", "clear", "playsound", "time", "difficulty", "setblock", "fill"}

BLOCKED_ITEMS == {"bedrock", "barrier"}

ALLOWED_SELECTORS == {"@a", "@s", "@p"}

VALID_MOBS == {"cow", "zombie"}

VALID_EFFECTS == {"speed", "poison"}

\* _PLAYER_NAME_RE.match(target), on the target strings of the model
PLAYER_NAME_RE(target) == target \in {"Steve", "steve", "STEVE", "Bob"}

\* the bands of the clamping validators
SummonCountMax == 5
ItemCountMax == 64
EffectDurationMax == 120
EffectAmplifierMax == 3
WeatherDurationMax == 24000

\* schematics.build_schematic_command: the world-size limit of a coordinate
CoordLimit == 30000

\* min(int(v), hi), the lower bound forgotten
clamp_upper(v, lo, hi) == Min(v, hi)

\* max(lo, min(int(v), hi))
clamp_int(v, lo, hi) == Max(lo, Min(v, hi))

\* what a handler or a validator does: it returns a list of command dicts
\* (None and a single dict are the lists of none and of one), or it raises
Return(commands) == [raises |-> "no", error |-> "", commands |-> commands]

Raise(exception, error) ==
    [raises |-> exception, error |-> error, commands |-> << >>]

\* _check_player_target, were the whitelist never consulted
check_player_target_unlisted(target, whitelist) ==
    IF target \in ALLOWED_SELECTORS THEN Return(<< >>)
    ELSE IF ~PLAYER_NAME_RE(target)
    THEN Raise("ValueError", "ERROR: Invalid player target")
    ELSE Return(<< >>)

\* _check_player_target
check_player_target(target, whitelist) ==
    IF target \in ALLOWED_SELECTORS THEN Return(<< >>)
    ELSE IF ~PLAYER_NAME_RE(target)
    THEN Raise("ValueError", "ERROR: Invalid player target")
    ELSE IF whitelist # {}
            /\ lower_word(target) \notin {lower_word(n) : n \in whitelist}
    THEN Raise("ValueError", "ERROR: Player is not on the whitelist")
    ELSE Return(<< >>)

\* a command dict of the translation layer: {"command": word + target + what
\* + numbers, "target_player": ...} or a {"type": ...} descriptor
Cmd(word, target, what, numbers, target_player) ==
    [type |-> "command", word |-> word, target |-> target, what |-> what,
     numbers |-> numbers, target_player |-> target_player]

Descriptor(type, what, numbers) ==
    [type |-> type, word |-> NoName, target |-> NoName, what |-> what,
     numbers |-> numbers, target_player |-> NoName]

\* _validate_command
validate_command(word) == word \in ALLOWED_COMMANDS

\* _cmd: the list of the dict, or of nothing where it returns None
cmd(word, target, what, numbers, target_player) ==
    IF validate_command(word)
    THEN << Cmd(word, target, what, numbers, target_player) >>
    ELSE << >>

\* the ValidationError of a pydantic model
Invalid(name) == Raise("ValidationError", "ERROR in " \o name)

\* handler(params) once _check_player_target(target) has passed
Checked(target, whitelist, commands) ==
    IF check_player_target(target, whitelist).raises # "no"
    THEN check_player_target(target, whitelist)
    ELSE Return(commands)

\* str(v).lower().replace("minecraft:", "")
normalize(v) ==
    CASE v = "minecraft:cow" -> "cow"
      [] v = "Cow" -> "cow"
      [] OTHER -> v

\* _wrap_message_lines(params.message)[:10]: a blank message has no line
wrap_message_lines(message) == IF message = " " THEN << >> ELSE << message >>

\* SendMessageParams, _send_message
send_message(args, source, whitelist) ==
    IF Get(args, "message", "") = "" THEN Invalid("send_message")
    ELSE LET lines == wrap_message_lines(args.message)
             target == Get(args, "target_player", NoName)
             whisper ==
                 IF lines = << >> THEN << >>
                 ELSE cmd("tellraw", target, args.message, << >>, NoName)
                      \o cmd("tellraw", "@a", "whispers to", << >>, NoName)
             public ==
                 IF lines = << >> THEN << >>
                 ELSE cmd("tellraw", "@a", args.message, << >>, NoName)
         IN  IF target # NoName
             THEN Checked(target, whitelist, whisper)
             ELSE Return(public)

\* SummonMobParams, _summon_mob
summon_mob(args, whitelist) ==
    IF "mob_type" \notin DOMAIN args \/ normalize(args.mob_type) \notin VALID_MOBS
    THEN Invalid("summon_mob")
    ELSE LET count == clamp_int(Get(args, "count", 1), 1, SummonCountMax)
             near == Get(args, "near_player", NoName)
             one == cmd("summon", NoName, normalize(args.mob_type), << >>, near)
             commands == IF one = << >> THEN << >>
                         ELSE [i \in 1..count |-> one[1]]
         IN  IF near # NoName
             THEN Checked(near, whitelist, commands)
             ELSE Return(commands)

\* ChangeWeatherParams, _change_weather
change_weather(args) ==
    IF Get(args, "weather_type", NoName) \notin {"clear", "rain", "thunder"}
    THEN Invalid("change_weather")
    ELSE Return(cmd("weather", NoName, args.weather_type,
                    << clamp_int(Get(args, "duration", 6000), 1,
                                 WeatherDurationMax) >>, NoName))

\* GiveEffectParams, _give_effect
give_effect(args, whitelist) ==
    IF Get(args, "effect", NoName) \notin VALID_EFFECTS
    THEN Invalid("give_effect")
    ELSE LET target == Get(args, "target_player", "@a")
         IN  Checked(target, whitelist,
                     cmd("effect", target, args.effect,
                         << clamp_int(Get(args, "duration", 30), 1,
                                      EffectDurationMax),
                            clamp_int(Get(args, "amplifier", 0), 0,
                                      EffectAmplifierMax) >>, NoName))

\* SetTimeParams, _set_time
set_time(args) ==
    IF Get(args, "time", NoName)
           \notin {"day", "noon", "sunset", "night", "midnight", "sunrise"}
    THEN Invalid("set_time")
    ELSE Return(cmd("time", NoName, args.time, << >>, NoName))

\* GiveItemParams, _give_item
give_item(args, whitelist) ==
    IF "item" \notin DOMAIN args \/ normalize(args.item) \in BLOCKED_ITEMS
    THEN Invalid("give_item")
    ELSE LET player == Get(args, "player", "@a")
         IN  Checked(player, whitelist,
                     cmd("give", player, normalize(args.item),
                         << clamp_int(Get(args, "count", 1), 1,
                                      ItemCountMax) >>, NoName))

\* ClearItemParams, _clear_item
clear_item(args, whitelist) ==
    LET player == Get(args, "player", "@a")
    IN  Checked(player, whitelist,
                cmd("clear", player, Get(args, "item", NoName), << >>, NoName))

\* StrikeLightningParams, _strike_lightning
strike_lightning(args, whitelist) ==
    IF "near_player" \notin DOMAIN args THEN Invalid("strike_lightning")
    ELSE Checked(args.near_player, whitelist,
                 cmd("summon", NoName, "lightning_bolt", << >>,
                     args.near_player))

\* PlaySoundParams, _play_sound
play_sound(args, whitelist) ==
    IF "sound" \notin DOMAIN args THEN Invalid("play_sound")
    ELSE LET target == Get(args, "target_player", NoName)
         IN  IF target # NoName
             THEN Checked(target, whitelist,
                          cmd("playsound", target, args.sound, << >>, NoName))
             ELSE Return(cmd("playsound", "@a", args.sound, << >>, NoName))

\* SetDifficultyParams, _set_difficulty
set_difficulty(args) ==
    IF Get(args, "difficulty", NoName)
           \notin {"peaceful", "easy", "normal", "hard"}
    THEN Invalid("set_difficulty")
    ELSE Return(cmd("difficulty", NoName, args.difficulty, << >>, NoName))

\* TeleportPlayerParams, _teleport_player
teleport_player(args, whitelist) ==
    IF ~({"player", "x"} \subseteq DOMAIN args) THEN Invalid("teleport_player")
    ELSE Checked(args.player, whitelist,
                 cmd("tp", args.player, NoName,
                     << args.x, Get(args, "y", 64), Get(args, "z", 0) >>,
                     NoName))

\* AssignMissionParams, _assign_mission
assign_mission(args, source, whitelist) ==
    IF ~({"player", "mission_title"} \subseteq DOMAIN args)
    THEN Invalid("assign_mission")
    ELSE Checked(args.player, whitelist,
                 cmd("tellraw", "@a", args.mission_title, << >>, NoName))

DIRECTION_OFFSETS ==
    [N |-> << 0, -1 >>, S |-> << 0, 1 >>, E |-> << 1, 0 >>, W |-> << -1, 0 >>,
     NE |-> << 1, -1 >>, SE |-> << 1, 1 >>, SW |-> << -1, 1 >>,
     NW |-> << -1, -1 >>]

DISTANCE_BLOCKS == [near |-> 10, medium |-> 25, far |-> 50]

\* the blueprints of the catalog
Blueprints == {"hut"}

\* abs(v)
Abs(v) == IF v < 0 THEN -v ELSE v

\* schematics.build_schematic_command: the descriptor, or None for an unknown
\* blueprint or a coordinate outside the world
build_schematic_command(blueprint_id, x, y, z, rotation) ==
    IF \/ blueprint_id \notin Blueprints
       \/ \E c \in {x, y, z} : Abs(c) > CoordLimit
    THEN << >>
    ELSE << Descriptor("build_schematic", blueprint_id,
                       << x, y, z, rotation >>) >>

\* player_context.get(name)
context_get(player_context, name) ==
    IF name \in DOMAIN player_context THEN player_context[name] ELSE None

\* the place _build_schematic computes from the player's position
resolve(player_data, args) ==
    LET compass ==
            IF Get(args, "in_front", TRUE)
            THEN IF player_data.facing \in DOMAIN DIRECTION_OFFSETS
                 THEN player_data.facing ELSE "N"
            ELSE IF Get(args, "direction", "N") \in DOMAIN DIRECTION_OFFSETS
                 THEN Get(args, "direction", "N") ELSE "N"
        dist == DISTANCE_BLOCKS[Get(args, "distance", "near")]
        dx == DIRECTION_OFFSETS[compass][1]
        dz == DIRECTION_OFFSETS[compass][2]
        step == IF Abs(dx) + Abs(dz) = 2 THEN (dist * 7) \div 10 ELSE dist
    IN  [x |-> player_data.x + dx * step, y |-> player_data.y,
         z |-> player_data.z + dz * step]

\* BuildSchematicParams, _build_schematic
build_schematic(args, player_context, requesting_player, whitelist) ==
    IF "blueprint_id" \notin DOMAIN args THEN Invalid("build_schematic")
    ELSE
    LET named == Get(args, "near_player", "")
        near_player == IF named # "" THEN named
                       ELSE IF requesting_player # NoName
                       THEN requesting_player ELSE ""
        falls_back ==
            /\ check_player_target(near_player, whitelist).raises # "no"
            /\ requesting_player # NoName
            /\ near_player # requesting_player
        validated == IF falls_back THEN requesting_player ELSE near_player
        own == context_get(player_context, lower_word(validated))
        fallback ==
            IF requesting_player # NoName
            THEN context_get(player_context, lower_word(requesting_player))
            ELSE None
        player_data == IF own = None THEN fallback ELSE own
    IN  IF near_player = ""
        THEN Raise("ValueError", "ERROR: build_schematic requires near_player")
        ELSE IF check_player_target(validated, whitelist).raises # "no"
        THEN check_player_target(validated, whitelist)
        ELSE IF player_data = None
        THEN Raise("ValueError", "ERROR: No position data for player")
        ELSE LET at == resolve(player_data, args)
                 result == build_schematic_command(
                               args.blueprint_id, at.x, at.y, at.z,
                               Get(args, "rotation", 0))
             IN  IF result = << >>
                 THEN Raise("ValueError", "ERROR: Blueprint not found")
                 ELSE Return(result)

KnownTools ==
    {"do_nothing", "send_message", "summon_mob", "change_weather",
     "give_effect", "set_time", "give_item", "clear_item", "strike_lightning",
     "play_sound", "set_difficulty", "teleport_player", "assign_mission",
     "build_schematic", "undo_last_build"}

\* _translate_one: the tool that is not in the dispatch chain
unknown_tool(name, args, source, player_context, requesting_player, whitelist) ==
    Raise("ValueError", "ERROR: Unknown tool")

\* _translate_one
translate_one(name, args, source, player_context, requesting_player, whitelist) ==
    CASE name = "do_nothing" -> Return(<< >>)
      [] name = "send_message" -> send_message(args, source, whitelist)
      [] name = "summon_mob" -> summon_mob(args, whitelist)
      [] name = "change_weather" -> change_weather(args)
      [] name = "give_effect" -> give_effect(args, whitelist)
      [] name = "set_time" -> set_time(args)
      [] name = "give_item" -> give_item(args, whitelist)
      [] name = "clear_item" -> clear_item(args, whitelist)
      [] name = "strike_lightning" -> strike_lightning(args, whitelist)
      [] name = "play_sound" -> play_sound(args, whitelist)
      [] name = "set_difficulty" -> set_difficulty(args)
      [] name = "teleport_player" -> teleport_player(args, whitelist)
      [] name = "assign_mission" -> assign_mission(args, source, whitelist)
      [] name = "build_schematic" ->
             build_schematic(args, player_context, requesting_player,
                             whitelist)
      [] name = "undo_last_build" ->
             Return(<< Descriptor("undo_last_build", NoName, << >>) >>)
      [] OTHER -> unknown_tool(name, args, source, player_context,
                               requesting_player, whitelist)

\* the except clauses of translate_tool_calls, were the last one missing
caught_value_errors(exception) == exception \in {"ValidationError", "ValueError"}

\* the except clauses of translate_tool_calls: ValidationError, ValueError
\* (json.JSONDecodeError is one) and Exception
caught(exception) ==
    exception \in {"ValidationError", "ValueError", "Exception"}

\* errors[tc.id] = message
put(errors, id, message) ==
    [k \in (DOMAIN errors) \cup {id} |-> IF k = id THEN message ELSE errors[k]]

\* what translate_tool_calls has built so far: the commands, the errors, and
\* for each command the id of the call it came from
NoOutput == [raised |-> FALSE, commands |-> << >>, errors |-> << >>,
             origin |-> << >>]

\* json.loads(tc.function.arguments) and _translate_one
translate_call(tc, source, player_context, requesting_player, whitelist) ==
    IF ~tc.arguments.json
    THEN Raise("ValueError", "ERROR: Expecting value")
    ELSE IF ~tc.arguments.object
            /\ tc.name \in KnownTools \ {"undo_last_build"}
    THEN \* Params(**args): TypeError, args is no mapping
         Raise("Exception", "Internal error processing " \o tc.name)
    ELSE translate_one(tc.name, tc.arguments.args, source, player_context,
                       requesting_player, whitelist)

RECURSIVE translate_loop(_, _, _, _, _, _)

\* translate_tool_calls: the loop over the tool calls
translate_loop(tool_calls, source, player_context, requesting_player, whitelist, acc) ==
    IF tool_calls = << >> THEN acc
    ELSE
    LET tc == Head(tool_calls)
        result == translate_call(tc, source, player_context,
                                 requesting_player, whitelist)
        after ==
            IF result.raises = "no"
            THEN [acc EXCEPT !.commands = @ \o result.commands,
                             !.origin = @ \o [i \in DOMAIN result.commands |->
                                                 tc.id]]
            ELSE IF caught(result.raises)
            THEN [acc EXCEPT !.errors = put(@, tc.id, result.error)]
            ELSE [acc EXCEPT !.raised = TRUE]
    IN  IF after.raised THEN after
        ELSE translate_loop(Tail(tool_calls), source, player_context,
                            requesting_player, whitelist, after)

\* translate_tool_calls; whitelist is what get_whitelist_names() returns
translate_tool_calls(tool_calls, source, player_context, requesting_player, whitelist) ==
    translate_loop(tool_calls, source, player_context, requesting_player,
                   whitelist, NoOutput)

\* KindGod.think: translate_tool_calls(action_calls, source="kind_god",
\* player_context=player_context), for the request of a player
think_translate(tool_calls, player_context, player, whitelist) ==
    translate_tool_calls(tool_calls, "kind_god", player_context, NoName,
                         whitelist)

(* ------------------------------------------------------------------ *)
(* translate_tool_calls, called on a batch of tool calls                *)
(* ------------------------------------------------------------------ *)

Targets == {"@a", "@s", "@p", "@e", "Steve", "STEVE", "Bob", "x y"}

\* get_whitelist_names(): the names of the file, or no name when the file
\* cannot be read
Whitelists == {{}, {"Steve"}}

Position(x, y, z, facing) == [x |-> x, y |-> y, z |-> z, facing |-> facing]

\* _build_player_context: no position, Steve's, and Steve's near the edge of
\* the world
PlayerContexts ==
    { << >>,
      "steve" :> Position(100, 64, 200, "N"),
      "steve" :> Position(CoordLimit - 5, 64, 0, "NE") }

\* the integers an LLM may write for a count or a duration
Numbers == {-1, 0, 1, 3, 4, 5, 6, 64, 65, 120, 121, 24000, 24001}

Coords == {-CoordLimit - 1, -CoordLimit, 0, CoordLimit, CoordLimit + 1}

\* the calls that name a player
TargetCalls ==
    UNION { { [name |-> "send_message",
               args |-> [message |-> "hi", target_player |-> t]],
              [name |-> "summon_mob",
               args |-> [mob_type |-> "cow", near_player |-> t]],
              [name |-> "give_effect",
               args |-> [effect |-> "speed", target_player |-> t]],
              [name |-> "give_item", args |-> [item |-> "dirt", player |-> t]],
              [name |-> "clear_item", args |-> [player |-> t]],
              [name |-> "strike_lightning", args |-> [near_player |-> t]],
              [name |-> "play_sound",
               args |-> [sound |-> "ding", target_player |-> t]],
              [name |-> "teleport_player", args |-> [player |-> t, x |-> 0]],
              [name |-> "assign_mission",
               args |-> [player |-> t, mission_title |-> "quest"]],
              [name |-> "build_schematic",
               args |-> [blueprint_id |-> "hut", near_player |-> t]] } :
            t \in Targets }

\* the calls that carry a count or a duration
NumberCalls ==
    UNION { { [name |-> "summon_mob",
               args |-> [mob_type |-> "cow", count |-> n]],
              [name |-> "give_item", args |-> [item |-> "dirt", count |-> n]],
              [name |-> "give_effect",
               args |-> [effect |-> "speed", duration |-> n]],
              [name |-> "give_effect",
               args |-> [effect |-> "speed", amplifier |-> n]],
              [name |-> "change_weather",
               args |-> [weather_type |-> "rain", duration |-> n]] } :
            n \in Numbers }

\* the calls that carry absolute coordinates
CoordCalls ==
    { [name |-> "teleport_player",
       args |-> [player |-> "Steve", x |-> x, y |-> y, z |-> z]] :
        x \in Coords, y \in Coords, z \in Coords }

\* build_schematic without a player, or for an unknown blueprint, or in a
\* given direction
BuildCalls ==
    { [name |-> "build_schematic", args |-> [blueprint_id |-> "hut"]],
      [name |-> "build_schematic",
       args |-> [blueprint_id |-> "hut", near_player |-> ""]],
      [name |-> "build_schematic",
       args |-> [blueprint_id |-> "castle", near_player |-> "Steve"]],
      [name |-> "build_schematic", args |-> [near_player |-> "Steve"]],
      [name |-> "build_schematic",
       args |-> [blueprint_id |-> "hut", near_player |-> "Steve",
                 in_front |-> FALSE, direction |-> "E"]],
      [name |-> "build_schematic",
       args |-> [blueprint_id |-> "hut", near_player |-> "Steve",
                 in_front |-> FALSE, direction |-> "SW",
                 distance |-> "far"]] }

\* calls with no arguments, of unknown tools, and with arguments that fail
\* validation
OtherCalls ==
    { [name |-> "do_nothing", args |-> << >>],
      [name |-> "undo_last_build", args |-> << >>],
      [name |-> "fly", args |-> << >>],
      [name |-> "search_schematics", args |-> [query |-> "hut"]],
      [name |-> "send_message", args |-> [message |-> "hi"]],
      [name |-> "send_message", args |-> [message |-> ""]],
      [name |-> "send_message", args |-> [message |-> " "]],
      [name |-> "send_message", args |-> << >>],
      [name |-> "summon_mob", args |-> [mob_type |-> "wither"]],
      [name |-> "summon_mob", args |-> [mob_type |-> "minecraft:cow"]],
      [name |-> "give_item", args |-> [item |-> "bedrock"]],
      [name |-> "give_effect", args |-> [effect |-> "flight"]],
      [name |-> "change_weather", args |-> [weather_type |-> "snow"]],
      [name |-> "set_time", args |-> [time |-> "day"]],
      [name |-> "set_time", args |-> [time |-> "teatime"]],
      [name |-> "set_difficulty", args |-> [difficulty |-> "hard"]],
      [name |-> "set_difficulty", args |-> << >>],
      [name |-> "teleport_player", args |-> [player |-> "Steve"]],
      [name |-> "play_sound", args |-> << >>],
      [name |-> "strike_lightning", args |-> << >>],
      [name |-> "assign_mission", args |-> [player |-> "Steve"]] }

\* the names of the calls whose arguments are no JSON, or no JSON object
NotJSONNames == {"send_message", "do_nothing", "fly"}

NotObjectNames == {"send_message", "undo_last_build", "fly"}

\* the batches: one call, or one of the other calls before or after a call
Batches ==
    { << ToolCall("call_1", c.name, Args(c.args)) >> :
        c \in TargetCalls \cup NumberCalls \cup CoordCalls
                 \cup BuildCalls \cup OtherCalls } \cup
    { << ToolCall("call_1", n, NotJSONArgs) >> : n \in NotJSONNames } \cup
    { << ToolCall("call_1", n, NotObjectArgs) >> : n \in NotObjectNames } \cup
    { << ToolCall("call_1", c.name, Args(c.args)),
         ToolCall("call_2", d.name, Args(d.args)) >> :
        c \in OtherCalls, d \in OtherCalls } \cup
    { << ToolCall("call_1", n, NotJSONArgs),
         ToolCall("call_2", d.name, Args(d.args)) >> :
        n \in NotJSONNames, d \in OtherCalls } \cup
    { << ToolCall("call_1", n, NotObjectArgs),
         ToolCall("call_2", d.name, Args(d.args)) >> :
        n \in NotObjectNames, d \in OtherCalls }

\* the argument of a call of translate_tool_calls: player is the one whose
\* request is being answered
TranslateInputs ==
    { [tool_calls |-> b, player_context |-> pc, player |-> "Steve",
       whitelist |-> wl] :
        b \in Batches, pc \in PlayerContexts, wl \in Whitelists }

\* a caller that passes the player of the request as requesting_player
translate_direct(s) ==
    [s EXCEPT !.pure.returned = TRUE,
              !.pure.out =
                  [caller |-> "direct",
                   result |-> translate_tool_calls(
                                  s.pure.arg.tool_calls, "kind_god",
                                  s.pure.arg.player_context,
                                  s.pure.arg.player, s.pure.arg.whitelist)]]

\* KindGod.think answering the request of the player
translate_think(s) ==
    [s EXCEPT !.pure.returned = TRUE,
              !.pure.out =
                  [caller |-> "think",
                   result |-> think_translate(
                                  s.pure.arg.tool_calls,
                                  s.pure.arg.player_context,
                                  s.pure.arg.player, s.pure.arg.whitelist)]]

TranslateDirect ==
    /\ ~pure.returned
    /\ Apply(translate_direct(Cur))

TranslateThink ==
    /\ ~pure.returned
    /\ Apply(translate_think(Cur))

InitTranslate ==
    \E a \in TranslateInputs :
        InitWith([Budget({}, 0, 0, 0, 0) EXCEPT !.arg = a])

NextTranslate ==
    \/ TranslateDirect
    \/ TranslateThink

SpecTranslate == InitTranslate /\ [][NextTranslate]_vars

(* ------------------------------------------------------------------ *)
(* memory.py: KindGodMemory.format_for_prompt, called by KindGod.think  *)
(* ------------------------------------------------------------------ *)

\* A text is the sequence of its lines; the empty string has none.

\* format_for_prompt, were the empty state to render the marker that
\* consolidate() writes into its own prompt
format_with_marker(mems) ==
    IF mems = << >> THEN << "You have no memories yet." >>
    ELSE << "=== YOUR MEMORIES ===" >>
         \o [i \in DOMAIN mems |-> "- " \o mems[i].content]
         \o << "=== END MEMORIES ===" >>

\* KindGodMemory.format_for_prompt
format_for_prompt(mems) ==
    IF mems = << >> THEN << >>
    ELSE << "=== YOUR MEMORIES ===" >>
         \o [i \in DOMAIN mems |-> "- " \o mems[i].content]
         \o << "=== END MEMORIES ===" >>

\* KindGod.think: memory_block = self.memory.format_for_prompt()
format_call(s) ==
    [s EXCEPT !.pure.returned = TRUE,
              !.pure.out = [memory_block |-> format_for_prompt(s.memories)]]

FormatForPrompt ==
    /\ ~pure.returned
    /\ Apply(format_call(Cur))

\* the memory files at start-up: none, an unreadable one, and the ones with
\* up to MemoryMaxEntries + 1 records
PromptFiles ==
    { NoFile, CorruptFile } \cup
    { MemoryFile([i \in 1..k |-> Memory(cs[i], 5, 6)], 1, Epoch) :
        cs \in [1..(MemoryMaxEntries + 1) -> {"a", "b", "c", "d"}],
        k \in 0..(MemoryMaxEntries + 1) }

InitPrompt ==
    \E f \in PromptFiles :
        InitWith([Budget({}, 0, 0, 0, 0) EXCEPT !.file = f])

NextPrompt == FormatForPrompt

SpecPrompt == InitPrompt /\ [][NextPrompt]_vars

(* ------------------------------------------------------------------ *)
(* The two loops, with the scheduling the event loop guarantees         *)
(* ------------------------------------------------------------------ *)

\* Every LLM call returns or fails in finite time: the await of a think()
\* or of consolidate() ends.
LLMCallsReturn ==
    /\ WF_vars(RequestHeraldReturn)
    /\ WF_vars(RequestDeepReturn)
    /\ WF_vars(RequestKindReturn)
    /\ WF_vars(RequestHeraldAlsoReturn)
    /\ WF_vars(TickConsolidateReturn)
    /\ WF_vars(TickDeepReturn)
    /\ WF_vars(TickKindReturn)
    /\ WF_vars(TickHeraldReturn)

\* The consumer task keeps running: a ready task is run by the event loop,
\* be it after queue.get() got an item or after the lock woke it.
TasksRun ==
    /\ WF_vars(PrayerDequeue)
    /\ WF_vars(LockGranted)

\* what happens while the requests wait: a player digs, a status beacon
LiveInputs ==
    { Event("block_break", "Steve", {}, 0, {}),
      Status({[name |-> "Steve", underground |-> TRUE]}) }

\* the request that is waiting when the behaviour starts
WaitingRequests ==
    { DivineRequest(1, "Steve", {"prayer"}, "prayer", Epoch, 1, << >>),
      DivineRequest(1, "Steve", {"herald"}, "herald", Epoch, 1, << >>) }

InitLive ==
    \E r \in WaitingRequests :
        InitWith([Budget(LiveInputs, 2, 0, 0, 0) EXCEPT !.queued = << r >>])

NextLive ==
    \/ ReceiveEvent
    \/ PrayerDequeue
    \/ LockGranted
    \/ RequestHeraldReturn
    \/ RequestDeepReturn
    \/ RequestKindReturn
    \/ TickFire
    \/ TickDeepReturn
    \/ TickKindReturn

SpecLive == InitLive /\ [][NextLive]_vars /\ LLMCallsReturn /\ TasksRun

(* ------------------------------------------------------------------ *)
(* The command queue with all its producers: the tick, the request     *)
(* loop, the remember trigger and POST /commands, and the poll         *)
(* ------------------------------------------------------------------ *)

DeliverInputs ==
    { Chat("Steve", {"herald"}, 1),
      Chat("Steve", {"remember"}, 1),
      Event("block_break", "Steve", {}, 0, {}),
      Status({[name |-> "Steve", underground |-> FALSE]}) }

InitDeliver ==
    InitWith(Budget(DeliverInputs, MaxEvents, MaxInject, MaxPolls, 0))

NextDeliver ==
    \/ ReceiveEvent
    \/ GetCommands
    \/ InjectCommands
    \/ PrayerDequeue
    \/ LockGranted
    \/ RequestHeraldReturn
    \/ TickFire
    \/ TickConsolidateReturn
    \/ TickKindReturn

SpecDeliver == InitDeliver /\ [][NextDeliver]_vars

(* ------------------------------------------------------------------ *)
(* deep_god.py: DeepGod.think and its rolling conversation_history     *)
(* ------------------------------------------------------------------ *)

\* "if len(self.conversation_history) > 20"
DeepHistoryMax == 20

\* a reply with so many tool calls that the exchange alone outgrows the
\* history
ManyCalls == 19

\* how many tool calls a reply of the Deep God's model may carry
DeepCallCounts == {0, 1, 2, ManyCalls}

\* what the LLM call of DeepGod.think can come to
DeepThinkReplies ==
    {[result |-> "fail", calls |-> 0]} \cup
    {[result |-> "reply", calls |-> n] : n \in DeepCallCounts}

\* self.conversation_history[-20:]
last_messages(h) ==
    SubSeq(h, Max(1, Len(h) - DeepHistoryMax + 1), Len(h))

RECURSIVE drop_to_user(_)
\* "while trimmed and trimmed[0]["role"] not in ("user", "system")"
drop_to_user(trimmed) ==
    IF trimmed # <<>> /\ Head(trimmed).role \notin {"user", "system"}
    THEN drop_to_user(Tail(trimmed))
    ELSE trimmed

\* the trim, were it to keep the last messages wherever they start
trim_anywhere(h) ==
    IF Len(h) > DeepHistoryMax THEN last_messages(h) ELSE h

\* DeepGod.think: the trim of conversation_history
trim_history(h) ==
    IF Len(h) > DeepHistoryMax THEN drop_to_user(last_messages(h)) ELSE h

\* DeepGod.think up to its LLM call
deep_think_call(s) ==
    [s EXCEPT !.dg.pc = "llm",
              !.dg.conversation_history =
                  Append(@, UserMessage("disturbance"))]

\* DeepGod.think from the return of its LLM call on. With tool calls it
\* returns what translate_tool_calls returned, a tuple.
deep_think_reply(s, o) ==
    LET h == s.dg.conversation_history
    IN  IF o.result = "fail"
        THEN [s EXCEPT !.dg.pc = "idle", !.dg.returned = "None",
                       !.dg.trimmed = FALSE,
                       !.dg.conversation_history = SubSeq(h, 1, Len(h) - 1)]
        ELSE LET ids == [i \in 1..o.calls |-> CallId(i)]
                 h1  == Append(h, Message("assistant", ids, 0, "reply"))
                        \o [i \in 1..o.calls |->
                               Message("tool", <<>>, CallId(i), "ok")]
             IN  [s EXCEPT !.dg.pc = "idle",
                           !.dg.returned =
                               IF o.calls > 0 THEN "tuple" ELSE "list",
                           !.dg.trimmed = Len(h1) > DeepHistoryMax,
                           !.dg.conversation_history = trim_history(h1)]

(* ------------------------------------------------------------------ *)
(* The conversations of the personas: a caller drives think() of the   *)
(* Kind God or of the Deep God, call after call                        *)
(* ------------------------------------------------------------------ *)

Personas == {"kind_god", "deep_god"}

KindThinkCall == pure.arg = "kind_god" /\ ThinkCall

KindThinkReply == pure.arg = "kind_god" /\ ThinkReply

DeepThinkCall ==
    /\ pure.arg = "deep_god"
    /\ dg.pc = "idle"
    /\ Apply(deep_think_call(Cur))

DeepThinkReply ==
    /\ pure.arg = "deep_god"
    /\ dg.pc = "llm"
    /\ \E o \in DeepThinkReplies : Apply(deep_think_reply(Cur, o))

InitConverse ==
    \E persona \in Personas :
        InitWith([Budget({}, 0, 0, 0, 0) EXCEPT !.arg = persona])

NextConverse ==
    \/ KindThinkCall
    \/ KindThinkReply
    \/ DeepThinkCall
    \/ DeepThinkReply

SpecConverse == InitConverse /\ [][NextConverse]_vars

(* ------------------------------------------------------------------ *)
(* deep_god.py: DeepGod.should_act with its chances, in percent        *)
(* ------------------------------------------------------------------ *)

DEEP_GOD_DEEP_MINING_CHANCE == 70

DEEP_GOD_ORE_CHANCE == 40

DEEP_GOD_NETHER_CHANCE == 50

DEEP_GOD_NIGHT_UNDERGROUND_CHANCE == 15

DEEP_GOD_RANDOM_CHANCE == 5

DEEP_ORES == {"diamond_ore", "ancient_debris"}

\* an event summary, as the words in it, and a player of a status beacon
Summary(words) == [words |-> words]

Player(name, y, dimension) == [name |-> name, y |-> y, dimension |-> dimension]

\* "not x" of Python for a summary and for a status dict
Falsy(x) == x = None \/ x = Summary({}) \/ x = [players |-> {}]

\* "the loop over player_status["players"]": the players it does not skip
considered(player_status, praying_player) ==
    IF Falsy(player_status) THEN {}
    ELSE {p \in player_status.players :
            ~(praying_player # NoName
              /\ lower_word(p.name) # lower_word(praying_player))}

\* the weighted decision, were the chances added up
add_chance(chance, c) == Min(100, chance + c)

\* "chance = max(chance, c)"
raise_chance(chance, c) == Max(chance, c)

\* DeepGod.should_act; roll is random.random() in percent
deep_should_act(event_summary, player_status, kind_god_action_count, praying_player, roll) ==
    IF kind_god_action_count >= KindGodActionThreshold THEN TRUE
    ELSE IF Falsy(event_summary) /\ Falsy(player_status) THEN FALSE
    ELSE
      LET ps == considered(player_status, praying_player)
          players_in_nether == \E p \in ps : p.dimension = "the_nether"
          players_deep == \E p \in ps : p.y < 0
          players_underground == \E p \in ps : p.y < 30
          deep_ores_mined ==
              /\ ~Falsy(event_summary)
              /\ lower(event_summary.words) \cap DEEP_ORES # {}
          c0 == 0
          c1 == IF players_deep
                THEN raise_chance(c0, DEEP_GOD_DEEP_MINING_CHANCE) ELSE c0
          c2 == IF players_in_nether
                THEN raise_chance(c1, DEEP_GOD_NETHER_CHANCE) ELSE c1
          c3 == IF deep_ores_mined /\ players_underground
                THEN raise_chance(c2, DEEP_GOD_ORE_CHANCE) ELSE c2
          c4 == IF players_underground
                THEN raise_chance(
                        raise_chance(c3, DEEP_GOD_RANDOM_CHANCE),
                        DEEP_GOD_NIGHT_UNDERGROUND_CHANCE)
                ELSE c3
      IN  c4 > 0 /\ roll < c4

\* a caller of should_act, with the arguments in pure.arg
should_act_call(s) ==
    [s EXCEPT !.pure.returned = TRUE,
              !.pure.out =
                  [value |-> deep_should_act(
                                 s.pure.arg.event_summary,
                                 s.pure.arg.player_status,
                                 s.pure.arg.kind_god_action_count,
                                 s.pure.arg.praying_player,
                                 s.pure.arg.roll)]]

ShouldAct ==
    /\ ~pure.returned
    /\ Apply(should_act_call(Cur))

\* the rolls on either side of every chance
Rolls == {0, 4, 5, 14, 15, 39, 40, 49, 50, 69, 70, 99}

Depths == {64, 30, 29, 0, -1}

Dimensions == {"overworld", "the_nether"}

Statuses ==
    {None, [players |-> {}]} \cup
    {[players |-> {Player("Steve", y, d)}] : y \in Depths, d \in Dimensions} \cup
    {[players |-> {Player("Steve", y, d), Player("Bob", by, bd)}] :
        y \in Depths, d \in Dimensions, by \in Depths, bd \in Dimensions}

Summaries ==
    {None, Summary({}), Summary({"chat"}), Summary({"chat", "diamond_ore"})}

ShouldActInputs ==
    [event_summary : Summaries, player_status : Statuses,
     kind_god_action_count : 0..(KindGodActionThreshold + 1),
     praying_player : {NoName, "Steve", "steve"}, roll : Rolls]

InitShouldAct ==
    \E a \in ShouldActInputs :
        InitWith([Budget({}, 0, 0, 0, 0) EXCEPT !.arg = a])

NextShouldAct == ShouldAct

SpecShouldAct == InitShouldAct /\ [][NextShouldAct]_vars

(* ------------------------------------------------------------------ *)
(* dig_god.py: DigGod._handle_dig_response and its corrective calls    *)
(* ------------------------------------------------------------------ *)

max_retries == 2

DigContents ==
    { DigContent(FALSE, TRUE, TRUE, TRUE),
      DigContent(TRUE, TRUE, TRUE, TRUE),
      DigContent(FALSE, FALSE, FALSE, FALSE),
      DigContent(FALSE, TRUE, FALSE, FALSE),
      DigContent(FALSE, TRUE, TRUE, FALSE) }

\* what the corrective LLM call can come to: an exception, a message with
\* no content (tool calls), a message with content
RetryFailed == [result |-> "fail", content |-> DigContent(FALSE, FALSE, FALSE, FALSE)]

RetryToolCalls == [RetryFailed EXCEPT !.result = "tool_calls"]

RetryContent(c) == [result |-> "content", content |-> c]

RetryReplies ==
    {RetryFailed, RetryToolCalls} \cup {RetryContent(c) : c \in DigContents}

\* "Strip markdown fences if the LLM wrapped them"
strip_fences(content) == [content EXCEPT !.fenced = FALSE]

\* the first of the three validation steps that raises, "ok" if none does
validate(content) ==
    LET text == strip_fences(content)
    IN  IF text.fenced \/ ~text.json THEN "Non-JSON response"
        ELSE IF ~text.schema THEN "Validation"
        ELSE IF ~text.params THEN "Param validation"
        ELSE "ok"

\* "if attempt < max_retries", were one more corrective call allowed
may_retry_once_more(attempt) == attempt < max_retries + 1

\* "if attempt < max_retries"
may_retry(attempt) == attempt < max_retries

DigCommand(kind, dig_resp) == [kind |-> kind, of |-> dig_resp]

\* DigGod._build_dig_commands; found is whether player_context has the
\* position of near_player or of the requesting player
build_dig_commands(dig_resp, found) ==
    IF found
    THEN << DigCommand("announcement", dig_resp), DigCommand("dig", dig_resp),
            DigCommand("review", dig_resp), DigCommand("playsound", dig_resp) >>
    ELSE << DigCommand("announcement", dig_resp),
            DigCommand("cannot_find", dig_resp) >>

\* one iteration of "for attempt in range(max_retries + 1)" on s.dig.content,
\* up to the next LLM call or the return
dig_attempt(s) ==
    LET v == validate(s.dig.content)
    IN  IF v = "ok"
        THEN [s EXCEPT !.dig.pc = "memory",
                       !.dig.commands = build_dig_commands(strip_fences(s.dig.content), s.dig.found)]
        ELSE IF may_retry(s.dig.attempt)
        THEN [s EXCEPT !.dig.pc = "retry", !.dig.round_trips = @ + 1]
        ELSE [s EXCEPT !.dig.pc = "returned", !.dig.returned = "None",
                       !.dig.last_error = v]

\* DigGod._handle_dig_response is called with the content of a reply
handle_dig_response(s, content, found) ==
    dig_attempt([s EXCEPT !.dig = [NoDig EXCEPT !.content = content,
                                                  !.found = found,
                                                  !.replies = << RetryContent(content) >>]])

\* DigGod._retry_with_error returns, and _handle_dig_response goes on
retry_return(s, o) ==
    LET t == [s EXCEPT !.dig.replies = Append(@, o)]
    IN  IF o.result = "fail"
        THEN [t EXCEPT !.dig.pc = "returned", !.dig.returned = "None",
                       !.dig.last_error = "exception"]
        ELSE IF o.result = "tool_calls"
        THEN [t EXCEPT !.dig.pc = "returned", !.dig.returned = "None"]
        ELSE dig_attempt([t EXCEPT !.dig.content = o.content,
                                   !.dig.attempt = @ + 1])

\* DigGod._compose_memory returns (it adds a memory whatever its LLM call
\* came to), and _handle_dig_response returns the commands
compose_memory_return(s) ==
    [s EXCEPT !.dig.pc = "returned", !.dig.returned = "list",
              !.dig.memories = @ + 1, !.dig.action_count = @ + 1]

HandleDigResponse ==
    /\ dig.pc = "idle"
    /\ \E content \in DigContents, found \in BOOLEAN :
         Apply(handle_dig_response(Cur, content, found))

RetryReturn ==
    /\ dig.pc = "retry"
    /\ \E o \in RetryReplies : Apply(retry_return(Cur, o))

ComposeMemoryReturn ==
    /\ dig.pc = "memory"
    /\ Apply(compose_memory_return(Cur))

InitDig == InitWith(Budget({}, 0, 0, 0, 0))

NextDig ==
    \/ HandleDigResponse
    \/ RetryReturn
    \/ ComposeMemoryReturn

SpecDig == InitDig /\ [][NextDig]_vars

(* ------------------------------------------------------------------ *)
(* The activity log from start-up on: the server finds a log file of   *)
(* an earlier run, chat and personas append, consolidations delete     *)
(* ------------------------------------------------------------------ *)

\* the lists the log file may hold: none, a short one, one longer than
\* _CONSOLIDATION_LOG_MAX; entries of an earlier run are numbered below 0
LogFiles ==
    { << >>,
      << -1 >>,
      [i \in 1..(ConsolidationLogMax + 1) |-> i - (ConsolidationLogMax + 2)] }

InitActivity ==
    \E data \in LogFiles :
        InitWith([Budget(MemoryInputs, MaxEvents, 0, 0, MaxTime)
                    EXCEPT !.log_file = data, !.replies = ConsolidationReplies])

NextActivity ==
    \/ ReceiveEvent
    \/ AdvanceTime
    \/ TickFire
    \/ TickConsolidateReturn
    \/ TickDeepReturn
    \/ TickKindReturn
    \/ TickHeraldReturn

SpecActivity == InitActivity /\ [][NextActivity]_vars

(* ------------------------------------------------------------------ *)
(* Properties                                                          *)
(* ------------------------------------------------------------------ *)

\* _god_tick_inner has started and not ended: it is suspended in the LLM
\* call of the consolidation or of a persona
TickBody == tk_pc \in {"consolidate", "deep", "kind", "herald"}

\* _process_divine_request has started and not ended
RequestBody == pl_pc \in {"herald", "deep", "kind", "herald_also"}

\* C1: the tick body and the request body are never in progress at the same
\* time, and each is in progress only while its task holds _tick_lock.
C1_BodiesExclude ==
    /\ ~(TickBody /\ RequestBody)
    /\ TickBody => (locked /\ holder = "tick")
    /\ RequestBody => (locked /\ holder = "prayer")

\* the tick body is suspended in an LLM call while the consumer, holding a
\* dequeued request, waits for the lock
C1_Witness ==
    /\ TickBody
    /\ pl_pc = "lock_wait"
    /\ waiters = << "prayer" >>

\* C2: a tick that fires while _tick_lock is held does nothing: the tick
\* loop is asleep again after the step, the tick task never waits in
\* Lock.acquire, so a tick body only ever starts in the step in which its
\* timer fired.
C2_TickSkips ==
    /\ [](tk_pc # "lock_wait" /\ \A i \in DOMAIN waiters : waiters[i] # "tick")
    /\ [][(tk_pc = "sleep" /\ locked) =>
            /\ tk_pc' = "sleep"
            /\ tk' = tk
            /\ last_tick' # last_tick =>
                 /\ last_tick'.outcome = "skipped"
                 /\ waiters' = waiters
                 /\ events' = events
                 /\ command_queue' = command_queue
                 /\ consolidation_log' = consolidation_log]_vars

\* a tick fired while a request was being processed, and was skipped
C2_Witness ==
    /\ RequestBody
    /\ tk_pc = "sleep"
    /\ last_tick.outcome = "skipped"

\* the requests taken from the queue whose processing (requeue or
\* abandonment included) has not finished
OpenRequests == {i \in DOMAIN hist : hist[i].taken > hist[i].ends}

\* C3: at most one request is being processed at any time: a request is
\* taken from the queue only after the request before it has finished,
\* requeue or abandonment included.
C3_OneRequestAtATime ==
    /\ Cardinality(OpenRequests) <= 1
    /\ \A i \in OpenRequests :
         /\ pl_pc # "dequeue"
         /\ request.id = i
         /\ \A k \in DOMAIN prayer_queue : prayer_queue[k].id # i
    /\ \A i \in DOMAIN hist :
         /\ hist[i].taken - hist[i].ends \in {0, 1}
         /\ hist[i].starts <= hist[i].taken

\* a request is being processed, a request that was processed before and
\* requeued waits in the queue
C3_Witness ==
    /\ RequestBody
    /\ \E k \in DOMAIN prayer_queue :
         /\ prayer_queue[k].id # request.id
         /\ hist[prayer_queue[k].id].ends > 0

\* the commands of one kind queued for a request and aimed at a target
Notices(kind, req, target) ==
    {k \in DOMAIN command_queue :
        /\ command_queue[k].kind = kind
        /\ command_queue[k].req = req
        /\ command_queue[k].target = target}

\* the commands of one kind queued for a request, whatever their target
NoticesFor(kind, req) ==
    {k \in DOMAIN command_queue :
        command_queue[k].kind = kind /\ command_queue[k].req = req}

\* the entries of the queue that are request i
Queued(i) == {k \in DOMAIN prayer_queue : prayer_queue[k].id = i}

\* C4: as long as every attempt at a request has ended in a failed LLM call
\* of the answering persona, the request is processed at most MAX_ATTEMPTS
\* times; after failures 1 to MAX_ATTEMPTS - 1 it is back in the queue and
\* no abandoned notice has been queued; after failure MAX_ATTEMPTS it has
\* been processed exactly MAX_ATTEMPTS times, is not in the queue, and one
\* abandoned tellraw and one abandoned playsound aimed at its player have
\* been queued, the tellraw first.
C4_AbandonedAfterFive ==
    \A i \in DOMAIN hist :
        LET h == hist[i]
            player == h.created.player
        IN  h.fails = h.ends =>
              /\ h.starts <= MAX_ATTEMPTS
              /\ h.fails <= MAX_ATTEMPTS
              /\ h.fails < MAX_ATTEMPTS =>
                    /\ NoticesFor("abandoned_tellraw", i) = {}
                    /\ NoticesFor("abandoned_playsound", i) = {}
              /\ (h.fails \in 1..(MAX_ATTEMPTS - 1) /\ h.taken = h.ends) =>
                    /\ Cardinality(Queued(i)) = 1
                    /\ \A k \in Queued(i) : prayer_queue[k].attempts = h.fails
              /\ h.fails = MAX_ATTEMPTS =>
                    /\ h.starts = MAX_ATTEMPTS
                    /\ h.taken = MAX_ATTEMPTS
                    /\ Queued(i) = {}
                    /\ request.id # i
                    /\ Cardinality(NoticesFor("abandoned_tellraw", i)) = 1
                    /\ Cardinality(NoticesFor("abandoned_playsound", i)) = 1
                    /\ \E k \in Notices("abandoned_tellraw", i, player) :
                         k + 1 \in Notices("abandoned_playsound", i, player)

\* a request has failed MAX_ATTEMPTS times and its player has the notice
C4_Witness ==
    \E i \in DOMAIN hist :
        /\ hist[i].fails = MAX_ATTEMPTS
        /\ hist[i].ends = MAX_ATTEMPTS
        /\ Notices("abandoned_tellraw", i, hist[i].created.player) # {}

\* what requeue returns on its first, second, ... call for one request
RequeueReturns == [n \in 1..MAX_ATTEMPTS |-> n < MAX_ATTEMPTS]

\* C5 (state part): the values requeue has returned for a request are True
\* on the first MAX_ATTEMPTS - 1 calls and False on call MAX_ATTEMPTS; the
\* attempts of a request count the calls of requeue on it; after the call
\* that returned False the request is nowhere in the queue, and with one
\* request only the queue is then empty.
C5_Returns ==
    /\ \A i \in DOMAIN results :
         /\ Len(results[i]) <= MAX_ATTEMPTS
         /\ \A n \in DOMAIN results[i] : results[i][n] = RequeueReturns[n]
         /\ Len(results[i]) = MAX_ATTEMPTS =>
              /\ Queued(i) = {}
              /\ \A r \in held : r.id # i
    /\ \A k \in DOMAIN prayer_queue :
         prayer_queue[k].attempts = Len(results[prayer_queue[k].id])
    /\ \A r \in held : r.attempts = Len(results[r.id])
    /\ (next_req = 1 /\ Len(results[1]) = MAX_ATTEMPTS) => Len(prayer_queue) = 0

\* C5 (step part): a call requeue(r) adds exactly 1 to r.attempts; if the
\* new value is below MAX_ATTEMPTS, r with the new value is appended to the
\* tail of the queue and True is returned; otherwise the queue is left as it
\* was and False is returned.
C5_Call ==
    \A r \in held :
        results'[r.id] # results[r.id] =>
            LET after == [r EXCEPT !.attempts = r.attempts + 1]
                value == results'[r.id][Len(results'[r.id])]
            IN  /\ Len(results'[r.id]) = Len(results[r.id]) + 1
                /\ IF after.attempts < MAX_ATTEMPTS
                   THEN /\ prayer_queue' = Append(prayer_queue, after)
                        /\ value = TRUE
                   ELSE /\ prayer_queue' = prayer_queue
                        /\ value = FALSE

\* C5: requeue increments attempts by one, re-appends at the tail and
\* returns True below MAX_ATTEMPTS, drops the request and returns False at
\* MAX_ATTEMPTS; MAX_ATTEMPTS requeues of one request return True
\* MAX_ATTEMPTS - 1 times, then False, and leave the queue empty.
C5_Requeue == []C5_Returns /\ [][C5_Call]_vars

\* one request was requeued MAX_ATTEMPTS times, dequeued after each True
C5_Witness ==
    /\ next_req = 1
    /\ results[1] = RequeueReturns
    /\ prayer_queue = <<>>
    /\ held = {}

\* the DivineRequest objects alive: in the queue, or held by the consumer
LiveRequests ==
    {prayer_queue[k] : k \in DOMAIN prayer_queue}
        \cup (IF pl_pc = "dequeue" THEN {} ELSE {request})

\* C6: every field of a request but attempts has the value it was created
\* with, player_snapshot and recent_chat included, whatever events, drains,
\* requeues and attempts came in between.
C6_CapturedOnce ==
    \A r \in LiveRequests :
        /\ [r EXCEPT !.attempts = 0] = hist[r.id].created
        /\ r.player_snapshot = hist[r.id].created.player_snapshot
        /\ r.recent_chat = hist[r.id].created.recent_chat

\* a request that has been processed and requeued is in the queue, and the
\* buffer's recent chat is no longer what the request captured
C6_Witness ==
    \E k \in DOMAIN prayer_queue :
        /\ prayer_queue[k].attempts > 0
        /\ hist[prayer_queue[k].id].ends > 0
        /\ prayer_queue[k].recent_chat # <<>>
        /\ get_recent_chat(events, RecentChatLimit) # prayer_queue[k].recent_chat
        /\ n_events > 1

\* the identities of the commands of a batch
BatchIds(batch) == {batch[k].id : k \in DOMAIN batch}

\* C7: no command is returned by more than one poll, and a command that a
\* poll returned is no longer in the queue.
C7_NoBatchTwice ==
    /\ \A i, j \in DOMAIN delivered :
         i # j => BatchIds(delivered[i]) \cap BatchIds(delivered[j]) = {}
    /\ \A i \in DOMAIN delivered :
         BatchIds(delivered[i]) \cap BatchIds(command_queue) = {}
    /\ \A i \in DOMAIN delivered :
         Cardinality(BatchIds(delivered[i])) = Len(delivered[i])

\* two polls have each returned commands and a producer has appended since
C7_Witness ==
    /\ Len(delivered) >= 2
    /\ delivered[1] # <<>>
    /\ delivered[2] # <<>>
    /\ command_queue # <<>>

\* what a step appended to command_queue (no poll in between)
Appended == SubSeq(command_queue', Len(command_queue) + 1, Len(command_queue'))

\* a step that ends an LLM call of a persona with a failure
TickDeepFails == tk_pc = "deep" /\ Apply(tick_deep_return(Cur, Failed))

TickKindFails == tk_pc = "kind" /\ Apply(tick_kind_return(Cur, Failed))

TickHeraldFails == tk_pc = "herald" /\ Apply(tick_herald_return(Cur, Failed))

RequestHeraldFails ==
    pl_pc = "herald" /\ Apply(request_herald_return(Cur, Failed))

RequestDeepFails == pl_pc = "deep" /\ Apply(request_deep_return(Cur, Failed))

RequestKindFails == pl_pc = "kind" /\ Apply(request_kind_return(Cur, Failed))

RequestHeraldAlsoFails ==
    pl_pc = "herald_also" /\ Apply(request_herald_also_return(Cur, Failed))

\* the step appended an in-game message and a sound cue
NoticeAppended ==
    /\ \E k \in DOMAIN Appended :
         Appended[k].kind \in {"failure_tellraw", "abandoned_tellraw"}
    /\ \E k \in DOMAIN Appended :
         Appended[k].kind \in {"failure_playsound", "abandoned_playsound"}

\* the step appended neither a failure notice nor an abandoned notice
NoNoticeAppended ==
    \A k \in DOMAIN Appended :
        Appended[k].kind \notin {"failure_tellraw", "failure_playsound",
                                 "abandoned_tellraw", "abandoned_playsound"}

\* the step appended the failure tellraw and playsound of a persona, to all
FailureNoticeAppended(god) ==
    /\ Len(Appended) = 2
    /\ Appended[1].kind = "failure_tellraw"
    /\ Appended[2].kind = "failure_playsound"
    /\ \A k \in 1..2 : Appended[k].god = god /\ Appended[k].target = "@a"

\* the step requeued the request in silence, or abandoned it with the notice
RequeuedOrAbandoned ==
    IF request.attempts + 1 < MAX_ATTEMPTS
    THEN /\ NoNoticeAppended
         /\ prayer_queue' = Append(prayer_queue, Requeued(request))
    ELSE /\ prayer_queue' = prayer_queue
         /\ \E k \in DOMAIN Appended :
              /\ k + 1 \in DOMAIN Appended
              /\ Appended[k].kind = "abandoned_tellraw"
              /\ Appended[k + 1].kind = "abandoned_playsound"
              /\ Appended[k].target = request.player
              /\ Appended[k + 1].target = request.player

\* C8 as claimed: every step in which an LLM call of a persona fails, in
\* the tick or in the request loop, appends a message and a sound cue.
C8_EveryFailureNoticed ==
    [][(\/ TickDeepFails \/ TickKindFails \/ TickHeraldFails
        \/ RequestHeraldFails \/ RequestDeepFails \/ RequestKindFails
        \/ RequestHeraldAlsoFails) => NoticeAppended]_vars

\* C8: a failed LLM call that makes think() return None in a tick, and a
\* failed call of the Herald speaking after an answered prayer, append the
\* failure tellraw and playsound of that persona; a failed call of the
\* persona answering a request appends nothing and requeues the request,
\* and at the attempt numbered MAX_ATTEMPTS appends the abandoned tellraw
\* and playsound instead; a failed call of the Kind God after its first
\* call appends no notice at all.
C8_FailureNotices ==
    [][/\ TickDeepFails => FailureNoticeAppended("deep")
       /\ (tk.turn = 0 /\ TickKindFails) => FailureNoticeAppended("kind")
       /\ (tk.turn > 0 /\ TickKindFails) => NoNoticeAppended
       /\ TickHeraldFails => FailureNoticeAppended("herald")
       /\ RequestHeraldAlsoFails => FailureNoticeAppended("herald")
       /\ (\/ RequestHeraldFails \/ RequestDeepFails
           \/ (pl.turn = 0 /\ RequestKindFails)) => RequeuedOrAbandoned
       /\ (pl.turn > 0 /\ RequestKindFails) => NoNoticeAppended]_vars

\* a request has failed and was requeued with nothing queued for its
\* player, and a failure notice of a persona is in the command queue
C8_Witness ==
    /\ \E i \in DOMAIN hist :
         /\ hist[i].fails > 0
         /\ NoticesFor("abandoned_tellraw", i) = {}
    /\ \E k \in DOMAIN command_queue :
         /\ k + 1 \in DOMAIN command_queue
         /\ command_queue[k].kind = "failure_tellraw"
         /\ command_queue[k + 1].kind = "failure_playsound"

\* the step in which a tick body, past _maybe_consolidate, finds nobody
\* online: no beacon, a stale beacon or an empty player list
IdleTick ==
    /\ NoPlayersOnline(get_player_status(Cur))
    /\ \/ /\ tk_pc = "sleep"
          /\ ~locked
          /\ tk_pc' = "sleep"
          /\ \E roll \in BOOLEAN : Apply(god_tick(Cur, roll))
       \/ /\ tk_pc = "consolidate"
          /\ \E reply \in budget.replies, roll \in BOOLEAN :
               Apply(consolidate_return(Cur, reply, roll))

\* no persona was called and nothing was queued
NoPersonaActed ==
    /\ tk_pc' = "sleep"
    /\ command_queue' = command_queue
    /\ next_cmd' = next_cmd
    /\ action_count' = action_count
    /\ deep_god_acted' = deep_god_acted
    /\ last_spoke' = last_spoke

\* C9 as claimed: a tick body that finds nobody online calls no persona,
\* queues no command and leaves the event buffer as it was.
C9_IdleTickKeepsEvents == [][IdleTick => (NoPersonaActed /\ events' = events)]_vars

\* C9: a tick body that finds nobody online calls no persona and queues no
\* command, and empties the event buffer: the buffered events are discarded.
C9_IdleTickDrains == [][IdleTick => (NoPersonaActed /\ events' = <<>>)]_vars

\* a tick found a stale beacon that lists a player, and discarded events
C9_Witness ==
    /\ last_tick.outcome = "no_players"
    /\ last_tick.drained > 0
    /\ latest_player_status # None
    /\ latest_player_status.players # {}
    /\ now - player_status_time > StatusStaleSeconds
    /\ tk_pc = "sleep"
    /\ events = <<>>

\* the step in which KindGodMemory.consolidate has returned normally
ConsolidationSucceeds ==
    tk_pc = "consolidate" /\ consolidation_count' = consolidation_count + 1

\* the entries logged since the snapshot of the running consolidation
AppendedSinceSnapshot ==
    LET newest == tk.activity_snapshot[Len(tk.activity_snapshot)]
    IN  [k \in 1..(next_log - newest) |-> newest + k]

\* C10 as claimed: after a successful consolidation the log holds exactly
\* the entries appended after the snapshot was taken, in order.
C10_AppendedPreserved ==
    [][ConsolidationSucceeds => consolidation_log' = AppendedSinceSnapshot]_vars

(* ------------------------------------------------------------------ *)
(* Memory consolidation                                                *)
(* ------------------------------------------------------------------ *)

\* the step in which a tick body starts: the timer of _god_tick_loop expires
\* and the lock is free, or the tick was waiting for the lock and gets it
TickBodyStarts ==
    \/ /\ tk_pc = "sleep"
       /\ woken = {}
       /\ CanAcquire(Cur)
       /\ \E roll \in BOOLEAN : Apply(god_tick(Cur, roll))
    \/ /\ tk_pc = "lock_wait"
       /\ "tick" \in woken
       /\ \E roll \in BOOLEAN : Apply(lock_granted(Cur, "tick", roll))

\* there is activity to reflect on, and a player asked for it or the failure
\* cooldown is over and an interval has passed since the last success
ConsolidationDue ==
    /\ consolidation_log # <<>>
    /\ \/ force_consolidation
       \/ /\ now >= consolidation_cooldown_until
          /\ \/ last_consolidation = 0
             \/ now - last_consolidation >= ConsolidationInterval

\* C11: a tick body that starts makes the consolidation LLM call if and only
\* if the activity log is not empty and either the force flag is set or the
\* failure cooldown has expired and at least the interval has passed since
\* the last successful consolidation. Players being online or not plays no
\* part, and the force flag overrides both the interval and the cooldown.
C11_ConsolidationWhenDue ==
    [][TickBodyStarts => ((tk_pc' = "consolidate") <=> ConsolidationDue)]_vars

\* a forced consolidation runs during the cooldown with nobody online
C11_Witness ==
    /\ tk_pc = "consolidate"
    /\ tk.now < consolidation_cooldown_until
    /\ NoPlayersOnline(get_player_status(Cur))

\* the step in which the consolidation LLM call has failed, or its reply is
\* not JSON, or is JSON but not a list
ConsolidationFails ==
    /\ tk_pc = "consolidate"
    /\ \E reply \in budget.replies, roll \in BOOLEAN :
         /\ reply.kind \in {"error", "not_json", "not_list"}
         /\ Apply(consolidate_return(Cur, reply, roll))

\* C12: a failed consolidation attempt leaves the memories,
\* consolidation_count and last_consolidation as they were and removes no
\* entry of the activity log; the cooldown then ends one interval after the
\* time at which the failed attempt was made, nothing else moves it, and
\* while it lasts a tick body makes a consolidation call only when forced.
C12_FailedConsolidation ==
    [][ /\ ConsolidationFails =>
            /\ memories' = memories
            /\ consolidation_count' = consolidation_count
            /\ last_consolidation' = last_consolidation
            /\ consolidation_log' = consolidation_log
            /\ consolidation_cooldown_until' = tk.now + ConsolidationInterval
        /\ ~ConsolidationFails =>
            consolidation_cooldown_until' = consolidation_cooldown_until
        /\ ( /\ TickBodyStarts
             /\ ~force_consolidation
             /\ now < consolidation_cooldown_until ) =>
            tk_pc' # "consolidate" ]_vars

\* a consolidation has failed: memories loaded at start-up are still there,
\* the log is kept and the cooldown is running
C12_Witness ==
    /\ tk_pc = "sleep"
    /\ consolidation_cooldown_until > now
    /\ consolidation_log # <<>>
    /\ memories # <<>>
    /\ consolidation_count = 1
    /\ ~force_consolidation

\* C13 as claimed: the Kind God never holds more than MEMORY_MAX_ENTRIES
\* memory records, from the load of the memory file at start-up on and
\* through every successful or failed consolidation.
C13_MemoriesBounded == Len(memories) <= MemoryMaxEntries

(* ------------------------------------------------------------------ *)
(* The elements of the command queue                                   *)
(* ------------------------------------------------------------------ *)

\* the elements that are dicts with a string under "command" (a tellraw, a
\* playsound, a translated tool call) or with a "type" (build_schematic)
DescriptorKinds ==
    { "god_command", "failure_tellraw", "failure_playsound",
      "abandoned_tellraw", "abandoned_playsound", "remember_tellraw",
      "remember_playsound", "intercept_tellraw", "injected" }

IsDescriptor(c) == c.kind \in DescriptorKinds

\* C14 as claimed: every element that the tick loop or the request loop
\* places in the command queue is a command descriptor, a mapping with a
\* "command" string or with a "type", whichever persona's think() produced it.
C14_OnlyDescriptors ==
    \A i \in DOMAIN command_queue : IsDescriptor(command_queue[i])

(* ------------------------------------------------------------------ *)
(* KindGod.think                                                       *)
(* ------------------------------------------------------------------ *)

\* the reply asks for nothing: text only, or do_nothing calls alone
ChoosesNotToAct(reply) ==
    /\ reply.result = "reply"
    /\ \A i \in DOMAIN reply.tool_calls :
          reply.tool_calls[i].name = "do_nothing"

ThinkReturned == kg'.pc = "returned"

\* what an LLM call of think() that comes to reply leads to
ThinkOutcome(reply) ==
    /\ (ThinkReturned /\ kg'.result.is_none) =>
          (reply.result = "fail" /\ kg.turn = 0)
    /\ (reply.result = "fail" /\ kg.turn = 0) =>
          (ThinkReturned /\ kg'.result = ReturnsNone)
    /\ (reply.result = "fail" /\ kg.turn > 0) =>
          (ThinkReturned /\ kg'.result = Returns(kg.commands))
    /\ (ChoosesNotToAct(reply) /\ ThinkReturned) =>
          kg'.result = Returns(kg.commands)
    /\ (ChoosesNotToAct(reply) /\ kg.turn = 0) =>
          (ThinkReturned /\ kg'.result = Returns(<<>>))

\* C15: KindGod.think returns None only when its first LLM call fails, and
\* then it does; when the call of a later turn fails it returns the commands
\* validated in the earlier turns; when the model chooses not to act (a
\* text-only reply or do_nothing) think returns a list, never None: the
\* empty list when that is its first reply.
C15_ThinkReturns ==
    [][(kg.pc = "llm" /\ kg'.calls = kg.calls + 1)
          => ThinkOutcome(kg'.message)]_vars

\* the LLM call of a later turn failed and think() returned the commands of
\* the earlier turns
C15_Witness ==
    /\ kg.pc = "returned"
    /\ kg.n = 1
    /\ kg.last_error
    /\ kg.turn > 0
    /\ ~kg.result.is_none
    /\ kg.result.commands # <<>>

(* ------------------------------------------------------------------ *)
(* The order of the request queue                                      *)
(* ------------------------------------------------------------------ *)

\* C16: the request queue is first in, first out over insertions: enqueue
\* and requeue put the request behind every request that is waiting, and
\* dequeue takes the request at the head and leaves the others in their
\* order, so a requeued request is served after all that were waiting.
C16_Fifo ==
    [][ /\ Len(prayer_queue') > Len(prayer_queue) =>
            \E r \in Range(prayer_queue') :
                prayer_queue' = Append(prayer_queue, r)
        /\ Len(prayer_queue') < Len(prayer_queue) =>
            /\ prayer_queue' = Tail(prayer_queue)
            /\ held' = held \cup {Head(prayer_queue)}
        /\ Len(prayer_queue') = Len(prayer_queue) =>
            prayer_queue' = prayer_queue ]_vars

\* a request was requeued while another one was waiting, and stands behind it
C16_Witness ==
    /\ Len(prayer_queue) = 2
    /\ prayer_queue[1].attempts = 0
    /\ prayer_queue[2].attempts = 1
    /\ prayer_queue[2].id < prayer_queue[1].id

(* ------------------------------------------------------------------ *)
(* The event buffer                                                    *)
(* ------------------------------------------------------------------ *)

\* the step in which POST /event hands an event to EventBuffer.add
EventAdded == n_events' = n_events + 1

\* the event just added
AddedEvent(e) == [e EXCEPT !.seq = n_events + 1]

\* get_player_status returns the cached beacon while it is at most the
\* staleness window old, the boundary included, and None otherwise
StatusFresh ==
    get_player_status(Cur) =
        IF /\ latest_player_status # None
           /\ now - player_status_time <= StatusStaleSeconds
        THEN latest_player_status
        ELSE None

\* a beacon replaces the cached one and its arrival time and is not put in
\* the event list; nothing else touches the cache
StatusCached ==
    /\ EventAdded =>
          \E e \in budget.inputs :
              IF e.type = "player_status"
              THEN /\ latest_player_status' = AddedEvent(e)
                   /\ player_status_time' = now
                   /\ events' = events
              ELSE /\ latest_player_status' = latest_player_status
                   /\ player_status_time' = player_status_time
    /\ ~EventAdded =>
          /\ latest_player_status' = latest_player_status
          /\ player_status_time' = player_status_time

\* C17: get_player_status returns the most recently received status beacon
\* if and only if it arrived no more than the staleness window ago (it is
\* still returned at exactly that age) and None otherwise, however many
\* beacons came before; a beacon only replaces the cached slot and is never
\* in the event list.
C17_PlayerStatus ==
    /\ [](StatusFresh /\ \A i \in DOMAIN events : events[i].type # "player_status")
    /\ [][StatusCached]_vars

\* the second beacon received has gone stale: nobody is taken to be online
C17_Witness ==
    /\ latest_player_status # None
    /\ latest_player_status.seq = 2
    /\ latest_player_status.players # {}
    /\ now - player_status_time > StatusStaleSeconds
    /\ get_player_status(Cur) = None

\* the number of times e is in the event list or in what a drain took
TimesHeld(e) ==
    Cardinality({i \in DOMAIN events : events[i] = e})
    + Cardinality({ij \in (DOMAIN buffer_calls.drains) \X (1..BufferEvents + 1) :
                      /\ ij[2] \in DOMAIN buffer_calls.drains[ij[1]].taken
                      /\ buffer_calls.drains[ij[1]].taken[ij[2]] = e})

\* every event passed to add that is not a beacon is in the list or was
\* taken by one drain, once; a beacon is in neither
EachEventOnce ==
    \A i \in DOMAIN buffer_calls.added :
        LET e == buffer_calls.added[i]
        IN  TimesHeld(e) = IF e.type = "player_status" THEN 0 ELSE 1

\* a drain takes the whole list, leaves it empty and leaves the cached
\* beacon and its arrival time as they were
DrainSwaps ==
    Len(buffer_calls'.drains) > Len(buffer_calls.drains) =>
        /\ buffer_calls'.drains[Len(buffer_calls'.drains)].taken = events
        /\ events' = <<>>
        /\ latest_player_status' = latest_player_status
        /\ player_status_time' = player_status_time

\* C18: drain_and_summarize takes the accumulated events and empties the
\* list in one step and leaves the cached player status untouched; however
\* add and drain calls interleave, every non-status event passed to add is
\* taken by exactly one drain or still waiting: never lost, never seen by two.
C18_DrainTakesAll == []EachEventOnce /\ [][DrainSwaps]_vars

\* two drains have each taken events, and a beacon is cached
C18_Witness ==
    /\ Len(buffer_calls.drains) = 2
    /\ buffer_calls.drains[1].taken # <<>>
    /\ buffer_calls.drains[2].taken # <<>>
    /\ latest_player_status # None

\* the chat event is one that receive_event hands to the request queue
\* or to _trigger_remember
HandledAsRequest(e) == IsChat(e) /\ classify_divine_request(e.message) # NoName

\* C19: with filter_divine set, no line of the digest's CHAT section comes
\* from a chat message that matches a divine-request keyword, so a message
\* the request queue handles is never shown to a spontaneous tick; when
\* nothing but such messages was buffered, the digest is None.
C19_DivineFiltered ==
    \A k \in DOMAIN buffer_calls.drains :
        LET d == buffer_calls.drains[k]
        IN  d.filter_divine =>
              /\ d.digest # None =>
                    \A j \in DOMAIN d.digest.chat_lines :
                        classify_divine_request(
                            d.digest.chat_lines[j].message) = NoName
              /\ (\A j \in DOMAIN d.taken : HandledAsRequest(d.taken[j])) =>
                    d.digest = None

\* a filtered drain took a prayer and an ordinary chat line and its digest
\* shows the ordinary line alone; another took requests alone
C19_Witness ==
    /\ \E k \in DOMAIN buffer_calls.drains :
         LET d == buffer_calls.drains[k]
         IN  /\ d.filter_divine
             /\ \E j \in DOMAIN d.taken : HandledAsRequest(d.taken[j])
             /\ d.digest # None
             /\ Len(d.digest.chat_lines) = 1
    /\ \E k \in DOMAIN buffer_calls.drains :
         LET d == buffer_calls.drains[k]
         IN  /\ d.filter_divine
             /\ d.taken # <<>>
             /\ d.digest = None

(* ------------------------------------------------------------------ *)
(* The context of a request                                            *)
(* ------------------------------------------------------------------ *)

\* the chat line of the request in progress
OwnLine == [player |-> request.player, message |-> request.message]

\* a line of the captured chat that is a divine request other than this one
OtherRequest(c) == c # OwnLine /\ is_divine_request(c.message)

\* C20: the context built for a request has the request's own chat line,
\* has no line of recent_chat that is another divine request (a message
\* with a divine keyword that is not the request's own), and has every
\* line of recent_chat that has no divine keyword; it has no other line.
C20_ContextChat ==
    RequestBody =>
        LET lines == Range(pl.summary.chat_lines)
            recent == {ChatLine(request.recent_chat[i]) :
                          i \in DOMAIN request.recent_chat}
        IN  /\ OwnLine \in lines
            /\ \A c \in recent :
                  IF OtherRequest(c) THEN c \notin lines ELSE c \in lines
            /\ lines \subseteq recent \cup {OwnLine}

\* a request is in progress whose captured chat holds another divine
\* request and an ordinary line: the context has the ordinary line and its own
C20_Witness ==
    /\ RequestBody
    /\ \E i \in DOMAIN request.recent_chat :
          OtherRequest(ChatLine(request.recent_chat[i]))
    /\ \E i \in DOMAIN request.recent_chat :
          ~is_divine_request(request.recent_chat[i].message)
    /\ Len(pl.summary.chat_lines) = 2

\* the keyword sets, in the order of precedence
KeywordSets ==
    << [request_type |-> "remember", keywords |-> REMEMBER_KEYWORDS],
       [request_type |-> "dig", keywords |-> DIG_KEYWORDS],
       [request_type |-> "prayer", keywords |-> PRAYER_KEYWORDS],
       [request_type |-> "herald", keywords |-> HERALD_KEYWORDS] >>

\* the positions in KeywordSets of the sets that match the lower-cased message
Matching(message) ==
    {i \in DOMAIN KeywordSets :
        \E w \in message : lower_word(w) \in KeywordSets[i].keywords}

PassedPlayer == IF pure.out.caller = "direct" THEN pure.arg.player ELSE NoName

\* what the call would come to on its own
Alone(tc) ==
    translate_tool_calls(<< tc >>, "kind_god", pure.arg.player_context,
                         PassedPlayer, pure.arg.whitelist)

\* the commands of the returned list that came from the call id
CommandsOf(id) ==
    LET out == pure.out.result
        at == {i \in DOMAIN out.commands : out.origin[i] = id}
    IN  SelectSeq([i \in DOMAIN out.commands |->
                      [at |-> i \in at, command |-> out.commands[i]]],
                  LAMBDA c : c.at)

\* the call names an unknown tool, or its arguments are no JSON, or they fail
\* the validation of the tool's model
FailsTranslation(tc) ==
    \/ tc.name \notin KnownTools
    \/ ~tc.arguments.json
    \/ translate_call(tc, "kind_god", pure.arg.player_context, PassedPlayer,
                      pure.arg.whitelist).raises = "ValidationError"

\* C22: translate_tool_calls never raises; a call of an unknown tool, with
\* arguments that are no JSON or that fail validation adds no command and one
\* non-empty error under its id; every other call of the batch adds what it
\* adds on its own.
C22_RejectedCalls ==
    pure.returned =>
        LET out == pure.out.result
            calls == pure.arg.tool_calls
        IN  /\ ~out.raised
            /\ \A i \in DOMAIN calls :
                   IF FailsTranslation(calls[i])
                   THEN /\ CommandsOf(calls[i].id) = << >>
                        /\ calls[i].id \in DOMAIN out.errors
                        /\ out.errors[calls[i].id] # ""
                   ELSE /\ Len(CommandsOf(calls[i].id))
                               = Len(Alone(calls[i]).commands)
                        /\ \A k \in DOMAIN CommandsOf(calls[i].id) :
                               CommandsOf(calls[i].id)[k].command
                                   = Alone(calls[i]).commands[k]
                        /\ (calls[i].id \in DOMAIN out.errors)
                               <=> (calls[i].id \in DOMAIN Alone(calls[i]).errors)

\* a batch whose first call names an unknown tool and whose second call is a
\* message: one error, one command
C22_Witness ==
    /\ pure.returned
    /\ Len(pure.arg.tool_calls) = 2
    /\ pure.arg.tool_calls[1].name = "fly"
    /\ pure.arg.tool_calls[2].name = "send_message"
    /\ DOMAIN pure.out.result.errors = {"call_1"}
    /\ Len(pure.out.result.commands) = 1
    /\ pure.out.result.origin = << "call_2" >>

\* the argument that names the player, per player-targeting tool
TargetKey ==
    [send_message |-> "target_player", summon_mob |-> "near_player",
     give_effect |-> "target_player", give_item |-> "player",
     clear_item |-> "player", strike_lightning |-> "near_player",
     play_sound |-> "target_player", teleport_player |-> "player",
     assign_mission |-> "player", build_schematic |-> "near_player"]

\* the call is of a player-targeting tool and carries a target string
HasTarget(tc) ==
    /\ tc.arguments.json /\ tc.arguments.object
    /\ tc.name \in DOMAIN TargetKey
    /\ TargetKey[tc.name] \in DOMAIN tc.arguments.args

TargetOf(tc) == tc.arguments.args[TargetKey[tc.name]]

\* the target is neither a selector nor, whatever its case, on the whitelist
NotAllowed(target, whitelist) ==
    /\ target \notin {"@a", "@s", "@p"}
    /\ \A n \in whitelist : lower_word(n) # lower_word(target)

\* no command came from the call, and an error is recorded under its id
RejectedCall(tc) ==
    /\ CommandsOf(tc.id) = << >>
    /\ tc.id \in DOMAIN pure.out.result.errors
    /\ pure.out.result.errors[tc.id] # ""

\* C23 as stated: every target that is neither a selector nor on the
\* whitelist is rejected, for every player-targeting tool.
C23_TargetsRejected ==
    pure.returned =>
        \A i \in DOMAIN pure.arg.tool_calls :
            LET tc == pure.arg.tool_calls[i]
            IN  (HasTarget(tc) /\ NotAllowed(TargetOf(tc), pure.arg.whitelist))
                    => RejectedCall(tc)

\* C23, amended: with a whitelist that is not empty, a target that is
\* neither a selector nor on the whitelist is rejected, but for a
\* build_schematic that can fall back to the requesting player; with an empty
\* whitelist a target that is neither a selector nor a well-formed name is
\* rejected, with the same exception.
C23_TargetsRejectedWhenListed ==
    pure.returned =>
        \A i \in DOMAIN pure.arg.tool_calls :
            LET tc == pure.arg.tool_calls[i]
            IN  (/\ HasTarget(tc)
                 /\ NotAllowed(TargetOf(tc), pure.arg.whitelist)
                 /\ pure.arg.whitelist = {} => ~PLAYER_NAME_RE(TargetOf(tc))
                 /\ ~(tc.name = "build_schematic" /\ PassedPlayer # NoName))
                    => RejectedCall(tc)

\* give_item for Bob, who is not on the whitelist, was rejected
C23_Witness ==
    /\ pure.returned
    /\ pure.arg.whitelist = {"Steve"}
    /\ Len(pure.arg.tool_calls) = 1
    /\ pure.arg.tool_calls[1].name = "give_item"
    /\ HasTarget(pure.arg.tool_calls[1])
    /\ TargetOf(pure.arg.tool_calls[1]) = "Bob"
    /\ RejectedCall(pure.arg.tool_calls[1])

\* an axis outside the world
OutOfRange(v) == v < -CoordLimit \/ v > CoordLimit

\* the call is a teleport_player with an axis outside the world
TeleportsOutside(tc) ==
    /\ tc.arguments.json /\ tc.arguments.object
    /\ tc.name = "teleport_player"
    /\ {"player", "x"} \subseteq DOMAIN tc.arguments.args
    /\ \/ OutOfRange(tc.arguments.args.x)
       \/ OutOfRange(Get(tc.arguments.args, "y", 64))
       \/ OutOfRange(Get(tc.arguments.args, "z", 0))

\* the call is a build_schematic near a player whose position is known, and
\* the place it resolves to has an axis outside the world
BuildsOutside(tc) ==
    /\ tc.arguments.json /\ tc.arguments.object
    /\ tc.name = "build_schematic"
    /\ {"blueprint_id", "near_player"} \subseteq DOMAIN tc.arguments.args
    /\ lower_word(tc.arguments.args.near_player)
           \in DOMAIN pure.arg.player_context
    /\ LET at == resolve(pure.arg.player_context[
                             lower_word(tc.arguments.args.near_player)],
                         tc.arguments.args)
       IN  OutOfRange(at.x) \/ OutOfRange(at.y) \/ OutOfRange(at.z)

\* C24: a teleport_player or a build_schematic whose coordinates have an axis
\* outside +-30000 is rejected as a whole: no command comes from it and an
\* error is recorded for it.
C24_OutOfRangeRejected ==
    pure.returned =>
        \A i \in DOMAIN pure.arg.tool_calls :
            LET tc == pure.arg.tool_calls[i]
            IN  (TeleportsOutside(tc) \/ BuildsOutside(tc)) => RejectedCall(tc)

\* the bound of the band lo..hi nearest to n, or n itself inside the band
Nearest(n, lo, hi) == IF n < lo THEN lo ELSE IF n > hi THEN hi ELSE n

\* the call carries the integer argument key and nothing that is rejected
Carries(tc, name, key) ==
    /\ tc.arguments.json /\ tc.arguments.object
    /\ tc.name = name
    /\ key \in DOMAIN tc.arguments.args
    /\ ~HasTarget(tc)
    /\ ~FailsTranslation(tc)

\* the one command that came from the call
CommandOf(tc) == CommandsOf(tc.id)[1].command

\* C25: an integer count or duration is never rejected; the command carries
\* the nearest bound of its band: summon count 1 to 5 (one command per mob),
\* item count 1 to 64, effect duration 1 to 120, effect amplifier 0 to 3,
\* weather duration 1 to 24000.
C25_Saturated ==
    pure.returned =>
        \A i \in DOMAIN pure.arg.tool_calls :
            LET tc == pure.arg.tool_calls[i]
                args == tc.arguments.args
            IN  /\ Carries(tc, "summon_mob", "count") =>
                       /\ tc.id \notin DOMAIN pure.out.result.errors
                       /\ Len(CommandsOf(tc.id)) = Nearest(args.count, 1, 5)
                /\ Carries(tc, "give_item", "count") =>
                       /\ tc.id \notin DOMAIN pure.out.result.errors
                       /\ Len(CommandsOf(tc.id)) = 1
                       /\ CommandOf(tc).numbers
                              = << Nearest(args.count, 1, 64) >>
                /\ Carries(tc, "give_effect", "duration") =>
                       /\ tc.id \notin DOMAIN pure.out.result.errors
                       /\ Len(CommandsOf(tc.id)) = 1
                       /\ CommandOf(tc).numbers[1]
                              = Nearest(args.duration, 1, 120)
                /\ Carries(tc, "give_effect", "amplifier") =>
                       /\ tc.id \notin DOMAIN pure.out.result.errors
                       /\ Len(CommandsOf(tc.id)) = 1
                       /\ CommandOf(tc).numbers[2]
                              = Nearest(args.amplifier, 0, 3)
                /\ Carries(tc, "change_weather", "duration") =>
                       /\ tc.id \notin DOMAIN pure.out.result.errors
                       /\ Len(CommandsOf(tc.id)) = 1
                       /\ CommandOf(tc).numbers
                              = << Nearest(args.duration, 1, 24000) >>

\* a summon of 24001 cows came to five commands
C25_Witness ==
    /\ pure.returned
    /\ Len(pure.arg.tool_calls) = 1
    /\ Carries(pure.arg.tool_calls[1], "summon_mob", "count")
    /\ pure.arg.tool_calls[1].arguments.args.count = 24001
    /\ Len(pure.out.result.commands) = 5

\* the call is a build_schematic of a known blueprint whose near_player is
\* omitted, misspelled, or has no known position
NeedsFallback(tc) ==
    /\ tc.arguments.json /\ tc.arguments.object
    /\ tc.name = "build_schematic"
    /\ Get(tc.arguments.args, "blueprint_id", NoName) \in Blueprints
    /\ LET named == Get(tc.arguments.args, "near_player", "")
       IN  \/ named = ""
           \/ NotAllowed(named, pure.arg.whitelist) /\ pure.arg.whitelist # {}
           \/ ~PLAYER_NAME_RE(named)
           \/ lower_word(named) \notin DOMAIN pure.arg.player_context

\* the position of the player whose request is being answered is known
PositionKnown ==
    lower_word(pure.arg.player) \in DOMAIN pure.arg.player_context

\* the place the call resolves to from the position of that player
FromPlayer(tc) ==
    resolve(pure.arg.player_context[lower_word(pure.arg.player)],
            tc.arguments.args)

\* C26: while the Kind God answers a player's request, a build_schematic
\* whose near_player is omitted, misspelled or without a known position is
\* built from the position of the player who made the request; it fails only
\* when that position is not known, and then with an error for the call.
C26_BuildFallsBack ==
    (pure.returned /\ pure.out.caller = "think") =>
        \A i \in DOMAIN pure.arg.tool_calls :
            LET tc == pure.arg.tool_calls[i]
            IN  NeedsFallback(tc) =>
                    IF PositionKnown
                    THEN \/ /\ Len(CommandsOf(tc.id)) = 1
                            /\ CommandOf(tc).type = "build_schematic"
                            /\ SubSeq(CommandOf(tc).numbers, 1, 3)
                                   = << FromPlayer(tc).x, FromPlayer(tc).y,
                                        FromPlayer(tc).z >>
                         \/ /\ OutOfRange(FromPlayer(tc).x)
                            /\ RejectedCall(tc)
                    ELSE RejectedCall(tc)

\* C27 as stated: with no memory records format_for_prompt renders a "no
\* memories yet" marker, never the empty string.
C27_EmptyRendersMarker ==
    (pure.returned /\ memories = << >>) =>
        /\ pure.out.memory_block # << >>
        /\ "You have no memories yet." \in Range(pure.out.memory_block)

\* C27, amended: with no memory records format_for_prompt returns the empty
\* string; with records it returns a block with one bulleted line per
\* record between its two delimiters, never the empty string.
C27_EmptyRendersNothing ==
    pure.returned =>
        /\ memories = << >> => pure.out.memory_block = << >>
        /\ memories # << >> =>
               /\ Len(pure.out.memory_block) = Len(memories) + 2
               /\ \A i \in DOMAIN memories :
                      pure.out.memory_block[i + 1] = "- " \o memories[i].content

\* format_for_prompt returned for a server that found no memory file
C27_Witness ==
    /\ pure.returned
    /\ budget.file = NoFile
    /\ memories = << >>
    /\ pure.out.memory_block = << >>

\* herald_god.think is called in this step: for a herald request, alongside
\* a prayer, or in a tick
HeraldInvoked ==
    \/ pl_pc # "herald" /\ pl_pc' = "herald"
    \/ pl_pc # "herald_also" /\ pl_pc' = "herald_also"
    \/ tk_pc # "herald" /\ tk_pc' = "herald"

\* C28: the Herald is not invoked again before HERALD_COOLDOWN seconds have
\* passed since a think() of his that produced a real action, from a tick,
\* alongside a prayer or for a herald request; at exactly HERALD_COOLDOWN
\* seconds the cooldown is over.
C28_HeraldCooldown ==
    [][HeraldInvoked => now' - last_spoke' >= HeraldCooldown]_vars

\* an attempt at request i ended without a call of requeue: its commands
\* were queued, or the persona was silent
Answered(i) == i \in DOMAIN hist /\ hist[i].ends > Len(results[i])

\* request i was given up, and the notice for its player was queued
Abandoned(i) ==
    /\ i \in DOMAIN hist
    /\ hist[i].abandoned > 0
    /\ NoticesFor("abandoned_tellraw", i) # {}

ResponsesFor(i) ==
    {k \in DOMAIN command_queue :
        /\ command_queue[k].req = i
        /\ command_queue[k].kind \in
              {"god_command", "tuple_commands_list", "tuple_errors_dict"}}

\* this step ends an attempt at request i
AttemptEnds(i) == hist'[i].ends = hist[i].ends + 1

\* this step calls requeue for request i
RequeueCalled(i) == Len(results'[i]) > Len(results[i])

\* C30: an attempt at a dequeued request ends answered, requeued or
\* abandoned, and in one of them only: requeue is called at most once in an
\* attempt and then raises attempts by one, the attempt that calls requeue
\* queues no response commands, and a request whose response commands are on
\* the command queue is not in the request queue and is not started again.
C30_OneOutcome ==
    [][\A i \in DOMAIN hist :
          /\ RequeueCalled(i) =>
                /\ AttemptEnds(i)
                /\ Len(results'[i]) = Len(results[i]) + 1
                /\ \A k \in Queued(i)' :
                       prayer_queue'[k].attempts = Len(results'[i])
                /\ ResponsesFor(i)' = ResponsesFor(i)
                /\ ResponsesFor(i) = {}
          /\ ResponsesFor(i)' # {} =>
                /\ Queued(i)' = {}
                /\ hist'[i].starts = hist[i].starts]_vars

\* the attempts of request i: requeue adds one each time it is called
AttemptsOf(i) == Len(results[i])

\* C31: the attempts of every request are between 0 and MAX_ATTEMPTS, those
\* of a request in the queue are below MAX_ATTEMPTS, and a request is in the
\* queue at most once and not at all while the consumer holds it.
C31_AttemptsAndQueue ==
    /\ \A i \in DOMAIN hist :
          /\ AttemptsOf(i) \in 0..MAX_ATTEMPTS
          /\ Cardinality(Queued(i)) <= 1
    /\ \A k \in DOMAIN prayer_queue :
          /\ prayer_queue[k].attempts = AttemptsOf(prayer_queue[k].id)
          /\ prayer_queue[k].attempts < MAX_ATTEMPTS
    /\ request # NoRequest =>
          /\ Queued(request.id) = {}
          /\ request.attempts = AttemptsOf(request.id)
          /\ request.attempts < MAX_ATTEMPTS

\* one request is in the queue for its last attempt while another, given up
\* after MAX_ATTEMPTS attempts, is gone from it
C31_Witness ==
    /\ \E k \in DOMAIN prayer_queue :
           prayer_queue[k].attempts = MAX_ATTEMPTS - 1
    /\ \E i \in DOMAIN hist :
           AttemptsOf(i) = MAX_ATTEMPTS /\ Queued(i) = {}

RECURSIVE Concat(_)
\* the batches of a sequence, one after the other
Concat(batches) ==
    IF batches = << >> THEN << >>
    ELSE Head(batches) \o Concat(Tail(batches))

\* every command dict that was handed out or is waiting, in that order
Handled == Concat(delivered) \o command_queue

\* this step is a GET /commands
Polled == Len(delivered') = Len(delivered) + 1

\* C32: every command appended to command_queue, by the tick, a request, the
\* remember trigger or POST /commands, is returned by one poll and by no
\* other, in the order of the appends: the polls' batches followed by the
\* queue are at all times the commands appended so far, in order and once
\* each, and a poll returns the whole queue and leaves it empty.
C32_DeliveredOnceInOrder ==
    /\ [](/\ Len(Handled) = next_cmd
          /\ \A k \in DOMAIN Handled : Handled[k].id = k)
    /\ [][Polled => /\ delivered'[Len(delivered')] = command_queue
                    /\ command_queue' = << >>]_vars

\* two polls have each returned commands, among them commands of a tick and
\* of POST /commands
C32_Witness ==
    /\ Len(delivered) = 2
    /\ delivered[1] # << >>
    /\ delivered[2] # << >>
    /\ \E k \in DOMAIN Handled : Handled[k].kind = "injected"
    /\ \E k \in DOMAIN Handled :
           Handled[k].kind = "god_command" /\ Handled[k].req = 0

\* the assistant message at k is followed at once by one tool message per
\* call it lists, with the ids it lists, and by no further tool message
Answered33(conv, k) ==
    LET ids == conv[k].tool_calls
    IN  /\ k + Len(ids) <= Len(conv)
        /\ \A j \in DOMAIN ids :
              /\ conv[k + j].role = "tool"
              /\ conv[k + j].tool_call_id = ids[j]
        /\ k + Len(ids) < Len(conv) => conv[k + Len(ids) + 1].role # "tool"

\* the tool message at m answers a call of the assistant message before it
Asked(conv, m) ==
    \E k \in 1..(m - 1) :
        /\ conv[k].role = "assistant"
        /\ m - k \in DOMAIN conv[k].tool_calls
        /\ conv[m].tool_call_id = conv[k].tool_calls[m - k]

\* a conversation the LLM protocol accepts
Matched(conv) ==
    \A k \in DOMAIN conv :
        /\ conv[k].role = "assistant" => Answered33(conv, k)
        /\ conv[k].role = "tool" => Asked(conv, k)

\* C33: in the conversation a persona sends to the LLM every assistant
\* message with tool calls is followed at once by one tool result per call,
\* with the same ids, and no tool result stands without its assistant
\* message: for the Kind God on every turn of think(), for the Deep God in
\* conversation_history at all times, trimmed or not.
C33_ToolResultsPaired ==
    /\ kg.pc = "llm" => Matched(kg.conversation)
    /\ Matched(dg.conversation_history)

\* the Deep God's history was cut by the last think() and still holds an
\* earlier exchange with two tool calls and their results
C33_Witness ==
    /\ dg.pc = "idle"
    /\ dg.trimmed
    /\ Len(dg.conversation_history) > 2 + 2
    /\ \E k \in DOMAIN dg.conversation_history :
           /\ Len(dg.conversation_history[k].tool_calls) = 2
           /\ k + 2 < Len(dg.conversation_history)

\* this step is the return of an LLM call of think()
ReplyHandled == kg.pc = "llm" /\ kg'.calls = kg.calls + 1

\* C34: think() makes at most max_turns = 4 LLM calls, one per turn, and
\* returns when the fourth has come back, whatever the replies were.
C34_ThinkTerminates ==
    /\ [](/\ kg.calls <= KindMaxTurns
          /\ kg.pc = "llm" => (kg.calls = kg.turn /\ kg.turn < KindMaxTurns))
    /\ [][(ReplyHandled /\ kg.calls = KindMaxTurns - 1)
              => kg'.pc = "returned"]_vars

\* think() returned after four LLM calls, the last of which was a search
\* again
C34_Witness ==
    /\ kg.pc = "returned"
    /\ kg.calls = KindMaxTurns
    /\ kg.message.result = "reply"
    /\ \E i \in DOMAIN kg.message.tool_calls :
           kg.message.tool_calls[i].name \in SEARCH_TOOLS

\* the calls of a reply that think() handles, and those among them that
\* translate_tool_calls rejects
CappedCalls(reply) == 1..Min(Len(reply.tool_calls), ToolCallCap)

FailedCalls(reply) ==
    {i \in CappedCalls(reply) : ~reply.tool_calls[i].valid}

\* the names of the calls of a reply that validated and yield a command
ValidatedCommands(reply) ==
    LET calls == SubSeq(reply.tool_calls, 1,
                        Min(Len(reply.tool_calls), ToolCallCap))
        ok == SelectSeq(calls, LAMBDA tc : /\ tc.valid
                                           /\ tc.name \notin SEARCH_TOOLS
                                           /\ tc.name # "do_nothing")
    IN  [i \in DOMAIN ok |-> ok[i].name]

\* C35: when a tool call of a reply fails validation and turns remain, the
\* error text is appended to the conversation as the tool result of that
\* call's id, after the assistant message, and the next LLM call is made;
\* the commands of the calls of the same reply that validated are kept and
\* are in what think() returns if it returns at that point.
C35_RetryWithError ==
    [][(ReplyHandled /\ kg'.message.result = "reply"
                     /\ FailedCalls(kg'.message) # {}) =>
          LET reply == kg'.message
              base  == Len(kg.conversation) + 1
          IN  /\ kg'.commands = kg.commands \o ValidatedCommands(reply)
              /\ kg.turn + 1 < KindMaxTurns =>
                    /\ kg'.pc = "llm"
                    /\ kg'.turn = kg.turn + 1
                    /\ Len(kg'.conversation) =
                           base + Cardinality(CappedCalls(reply))
                    /\ SubSeq(kg'.conversation, 1, base - 1) = kg.conversation
                    /\ kg'.conversation[base].role = "assistant"
                    /\ \A i \in FailedCalls(reply) :
                          kg'.conversation[base + i] =
                              Message("tool", <<>>, CallId(i), "error")
              /\ kg.turn + 1 >= KindMaxTurns =>
                    /\ kg'.pc = "returned"
                    /\ kg'.result = Returns(kg'.commands)]_vars

\* a reply carried a call that validated and one that did not: the command
\* of the first is kept, the error of the second is in the conversation and
\* the next LLM call is under way
C35_Witness ==
    /\ kg.pc = "llm"
    /\ kg.turn = 1
    /\ kg.message.tool_calls =
           << Call("send_message", TRUE), Call("send_message", FALSE) >>
    /\ kg.commands = << "send_message" >>
    /\ kg.conversation[Len(kg.conversation)].content = "error"

\* the players whose position counts: all of them, or the one who prays
Relevant(a) ==
    IF a.player_status = None THEN {}
    ELSE {p \in a.player_status.players :
            \/ a.praying_player = NoName
            \/ lower_word(p.name) = lower_word(a.praying_player)}

\* the probabilities, in percent, of the conditions that hold
Proposed(a) ==
    LET underground == \E p \in Relevant(a) : p.y < 30
        ores == /\ a.event_summary # None
                /\ a.event_summary.words \cap DEEP_ORES # {}
    IN  {DEEP_GOD_DEEP_MINING_CHANCE : p \in {q \in Relevant(a) : q.y < 0}}
        \cup {DEEP_GOD_NETHER_CHANCE :
                 p \in {q \in Relevant(a) : q.dimension = "the_nether"}}
        \cup (IF ores /\ underground THEN {DEEP_GOD_ORE_CHANCE} ELSE {})
        \cup (IF underground
              THEN {DEEP_GOD_RANDOM_CHANCE, DEEP_GOD_NIGHT_UNDERGROUND_CHANCE}
              ELSE {})

\* C36: should_act is True whenever the Kind God's action count is at or
\* above the threshold; below it, it is True exactly when the roll is below
\* the largest of the chances of the conditions that hold, and False when
\* none holds. With a praying player only that player's position counts.
C36_ShouldAct ==
    pure.returned =>
        LET a == pure.arg
        IN  IF a.kind_god_action_count >= KindGodActionThreshold
            THEN pure.out.value
            ELSE pure.out.value <=>
                    \E c \in Proposed(a) :
                        /\ \A d \in Proposed(a) : d <= c
                        /\ a.roll < c

\* Steve prays on the surface while Bob is deep in the nether, and
\* should_act is False on the lowest roll; the count is below the threshold
C36_Witness ==
    /\ pure.returned
    /\ pure.arg.kind_god_action_count < KindGodActionThreshold
    /\ pure.arg.praying_player = "steve"
    /\ pure.arg.player_status =
           [players |-> {Player("Steve", 64, "overworld"),
                         Player("Bob", -1, "the_nether")}]
    /\ pure.arg.roll = 0
    /\ ~pure.out.value

\* this step invokes kind_god.think, from a tick or for a prayer
KindInvoked ==
    \/ tk_pc # "kind" /\ tk_pc' = "kind"
    \/ pl_pc # "kind" /\ pl_pc' = "kind"

\* this step invokes deep_god.think, from a tick or for a prayer
DeepInvoked ==
    \/ tk_pc # "deep" /\ tk_pc' = "deep"
    \/ pl_pc # "deep" /\ pl_pc' = "deep"

\* this step takes the tick past the Deep God it had selected
DeepTickOver == tk_pc = "deep" /\ tk_pc' # "deep"

\* C37: kind_god.think is invoked only while action_count is below
\* KIND_GOD_ACTION_THRESHOLD; with the count at the threshold a tick or a
\* prayer that reaches a persona reaches the Deep God; and once the tick has
\* gone past the Deep God it selected, the count is 0.
C37_CountBelowThreshold ==
    [][/\ KindInvoked => action_count < KindGodActionThreshold
       /\ (KindInvoked \/ DeepInvoked) =>
             (action_count >= KindGodActionThreshold => DeepInvoked)
       /\ DeepTickOver => action_count' = 0]_vars

(* ------------------------------------------------------------------ *)
(* The records a successful consolidation leaves                       *)
(* ------------------------------------------------------------------ *)

\* the stripped texts of the non-blank strings among the first
\* MEMORY_MAX_ENTRIES elements of a returned list, in order
ReturnedStrings(reply) ==
    LET first == SubSeq(reply.items, 1,
                        Min(Len(reply.items), MemoryMaxEntries))
        strs == SelectSeq(first, LAMBDA it : it.is_str /\ it.text # "")
    IN  [i \in DOMAIN strs |-> strs[i].text]

\* the consolidation call of the tick returns this list and consolidate
\* runs to its end
ConsolidationReturns(reply) ==
    /\ tk_pc = "consolidate"
    /\ reply.kind = "list"
    /\ \E roll \in BOOLEAN : Apply(consolidate_return(Cur, reply, roll))

\* C38: a successful consolidation replaces the whole record set with the
\* records built from the returned strings; each new record carries the
\* created timestamp of an old record with identical content if there is one,
\* otherwise the current time, and updated is always the current time.
C38_ConsolidationReplaces ==
    [][\A reply \in budget.replies :
          ConsolidationReturns(reply) =>
            LET strings == ReturnedStrings(reply)
            IN  /\ Len(memories') = Len(strings)
                /\ \A i \in DOMAIN strings :
                     LET new == memories'[i]
                         same == {j \in DOMAIN memories :
                                     memories[j].content = new.content}
                     IN  /\ new.content = strings[i]
                         /\ new.updated = now
                         /\ IF same = {}
                            THEN new.created = now
                            ELSE \E j \in same :
                                    new.created = memories[j].created]_vars

\* one consolidation rewrote a loaded memory and added a new one: the first
\* kept its created timestamp, the second was created now
C38_Witness ==
    /\ consolidation_count = 2
    /\ last_consolidation >= Epoch
    /\ \E i, j \in DOMAIN memories :
         /\ memories[i].created < Epoch
         /\ memories[i].updated = last_consolidation
         /\ memories[j].created = last_consolidation
         /\ memories[j].updated = last_consolidation

(* ------------------------------------------------------------------ *)
(* The Dig God's corrective round-trips                                *)
(* ------------------------------------------------------------------ *)

\* a reply that is not JSON, fails the schema or fails the shape parameters
InvalidReply(o) ==
    o.result = "content" /\ ~(o.content.json /\ o.content.schema /\ o.content.params)

\* a corrective call that raised or came back without content
FailedCall(o) == o.result # "content"

DigCommands == {i \in DOMAIN dig.commands : dig.commands[i].kind = "dig"}

GaveUp == dig.pc = "returned" /\ dig.returned = "None" /\ DigCommands = {}

\* C39: handling a structured dig reply makes at most 2 corrective LLM
\* round-trips; after a third invalid reply, or as soon as a corrective call
\* itself fails, it returns None and emits no dig command; dig commands are
\* built only from a reply that passed all three validation steps.
C39_BoundedCorrections ==
    LET n == Len(dig.replies)
    IN  /\ dig.round_trips <= 2
        /\ n <= 3
        /\ (n = 3 /\ InvalidReply(dig.replies[3])) => GaveUp
        /\ (n > 0 /\ FailedCall(dig.replies[n])) => GaveUp
        /\ \A i \in DigCommands :
             /\ n > 0
             /\ dig.replies[n].result = "content"
             /\ ~InvalidReply(dig.replies[n])
             /\ LET r == dig.commands[i].of
                IN  /\ r.json /\ r.schema /\ r.params
                    /\ \A f \in {"json", "schema", "params"} :
                          r[f] = dig.replies[n].content[f]

\* two corrective round-trips were made and the third reply was valid: the
\* commands returned hold a dig command
C39_Witness ==
    /\ dig.pc = "returned"
    /\ dig.returned = "list"
    /\ dig.round_trips = 2
    /\ Len(dig.replies) = 3
    /\ DigCommands # {}

(* ------------------------------------------------------------------ *)
(* The cap of the activity log                                         *)
(* ------------------------------------------------------------------ *)

\* a step calls _log_activity
ActivityLogged == next_log' # next_log

\* the last n entries of a log
LastEntries(log, n) == SubSeq(log, Len(log) - n + 1, Len(log))

\* C40: the activity log never holds more than _CONSOLIDATION_LOG_MAX
\* entries: an append to a full log first drops the oldest entry and an
\* append to any other log drops none, so that the log holds the most recent
\* entries in append order.
C40_LogCapped ==
    /\ [](Len(consolidation_log) <= ConsolidationLogMax)
    /\ [][ActivityLogged =>
            LET n == Len(consolidation_log)
                kept == Min(n, ConsolidationLogMax - 1)
            IN  /\ next_log' = next_log + 1
                /\ Len(consolidation_log') = Min(n + 1, ConsolidationLogMax)
                /\ consolidation_log'[Len(consolidation_log')] = next_log'
                /\ LastEntries(consolidation_log', kept + 1)
                     = Append(LastEntries(consolidation_log, kept), next_log')]_vars

\* with no consolidation so far, more entries were appended than the log
\* holds: the oldest are gone and the log holds the newest, the last
\* appended last
C40_Witness ==
    /\ consolidation_count = 0
    /\ next_log > ConsolidationLogMax
    /\ Len(consolidation_log) = ConsolidationLogMax
    /\ \A i \in DOMAIN consolidation_log :
         consolidation_log[i] = next_log - (ConsolidationLogMax - i)
====
